---------------------------- MODULE Spec2Model ----------------------------
(***************************************************************************)
(* Verification model of hass-atlas: the Energy Dashboard preferences      *)
(* transformer (merge_prefs, apply_topology_prefs, remove_stale_references)*)
(* the orchestrating commands (energy, energy --topology, energy-audit)    *)
(* and the topology decision engine (build_energy_topology).               *)
(*                                                                         *)
(* Python objects live in a heap (a sequence of objects, an object's       *)
(* address is its index and stands for id(obj)): the preferences document  *)
(* is a dict whose two sections point to list objects, whose items point   *)
(* to dict objects.  copy.deepcopy allocates, list.append and item         *)
(* assignment write to the heap, so aliasing and mutation are visible.     *)
(***************************************************************************)
EXTENDS Integers, Sequences, FiniteSets, TLC

VARIABLES
    mode,       \* which function the behaviour exercises, and how far it got
    heap,       \* the Python heap: Seq of objects
    heap0,      \* the heap as it was when the function under test was called
    curRoot,    \* address of the `current` / `prefs` argument
    propRoot,   \* address of merge_prefs' `proposed` argument (0: none)
    topo,       \* apply_topology_prefs' EnergyTopology.role_assignments
    staleIds,   \* remove_stale_references' stale_ids / find_stale's known ids
    outRoot,    \* address of the returned document (0: not yet called)
    out2Root,   \* address of the document returned by the second call
    cmd,        \* the command of the run: energy, energy --topology, energy-audit
    prune,      \* energy-audit's --prune
    dry_run,    \* ctx.dry_run
    noTrees,    \* the registries hold no SPAN device (`not trees`)
    noStale,    \* find_stale_references found nothing (`not stale`)
    ip,         \* the run's position: index of its next step
    status,     \* "running", "returned" or "raised"
    ws,         \* HAClient._ws is set (the connection is open)
    msg_id,     \* HAClient._msg_id
    log,        \* what the run has done so far: messages sent, results, renders
    trees,          \* build_energy_topology's trees: Seq of SpanDeviceTree
    topologies,     \* its topologies: Seq of SpanTopology, one per panel
    integrations,   \* its integrations: Seq of EnergyIntegration
    circuit_roles,  \* its circuit_roles: Seq of CircuitRole
    assignments,    \* EnergyTopology.role_assignments of the result
    warnings,       \* EnergyTopology.warnings of the result
    built,          \* build_energy_topology has returned
    reg_devices,      \* the device registry: Seq of HADevice
    reg_entities,     \* the entity registry: Seq of HAEntity
    stage,            \* which registry function the behaviour exercises, and how far it got
    found,            \* what _find_upstream_energy returned, per suffix
    proposed_config,  \* what build_energy_config returned
    all_entity_ids,   \* the entity-ids Home Assistant knows (energy-audit)
    states,           \* get_states: entity-id -> state and attributes
    renames           \* what _compute_renames returned

prefsVars == <<mode, heap, heap0, curRoot, propRoot, topo, staleIds, outRoot, out2Root>>

cliVars == <<cmd, prune, dry_run, noTrees, noStale, ip, status, ws, msg_id, log>>

engineVars == <<trees, topologies, integrations, circuit_roles, assignments, warnings, built>>

registryVars ==
    <<reg_devices, reg_entities, stage, found, proposed_config, all_entity_ids, states, renames>>

vars == <<prefsVars, cliVars, engineVars, registryVars>>

\* No registry function is under test.
RegistryIdle ==
    /\ reg_devices = <<>> /\ reg_entities = <<>> /\ stage = "idle"
    /\ found = <<>> /\ proposed_config = <<>> /\ all_entity_ids = {}
    /\ states = <<>> /\ renames = <<>>

\* The decision engine is not under test.
EngineIdle ==
    /\ trees = <<>> /\ topologies = <<>> /\ integrations = <<>> /\ circuit_roles = <<>>
    /\ assignments = <<>> /\ warnings = <<>> /\ built = FALSE

\* No command is running.
CliIdle ==
    /\ cmd = "none" /\ prune = FALSE /\ dry_run = FALSE
    /\ noTrees = FALSE /\ noStale = FALSE
    /\ ip = 0 /\ status = "returned" /\ ws = FALSE /\ msg_id = 0 /\ log = <<>>

\* No transformer function is under test.
PrefsIdle ==
    /\ mode = "idle" /\ heap = <<>> /\ heap0 = <<>> /\ curRoot = 0 /\ propRoot = 0
    /\ topo = <<>> /\ staleIds = {} /\ outRoot = 0 /\ out2Root = 0

-----------------------------------------------------------------------------
(* Python values *)

\* Python's None, among string values.
None == "<None>"

\* bool(x) for a str-or-None value.
Truthy(x) == x # None /\ x # ""

\* dict.get(k) and dict.get(k, default)
Get(d, k) == IF k \in DOMAIN d THEN d[k] ELSE None

GetOr(d, k, default) == IF k \in DOMAIN d THEN d[k] ELSE default

\* d[k] = v
SetKey(d, k, v) == [x \in (DOMAIN d) \cup {k} |-> IF x = k THEN v ELSE d[x]]

\* del d[k] / d.pop(k, None)
DelKey(d, k) == [x \in (DOMAIN d) \ {k} |-> d[x]]

\* The strings of the model in ascending code-point order, which is the
\* order sorted() gives a list of str.
LexOrder == <<"", "e1", "e2", "e3", "p1", "r1", "r2">>

LexRank(s) == CHOOSE i \in 1..Len(LexOrder) : LexOrder[i] = s

LexLeq(a, b) == LexRank(a) <= LexRank(b)

RECURSIVE InsertSorted(_, _)
InsertSorted(x, s) ==
    IF s = <<>> THEN <<x>>
    ELSE IF LexLeq(x, Head(s)) THEN <<x>> \o s
    ELSE <<Head(s)>> \o InsertSorted(x, Tail(s))

\* sorted(seq) for a sequence of str
RECURSIVE Sorted(_)
Sorted(s) == IF s = <<>> THEN <<>> ELSE InsertSorted(Head(s), Sorted(Tail(s)))

RECURSIVE SetToSeq(_)
SetToSeq(S) ==
    IF S = {} THEN <<>>
    ELSE LET x == CHOOSE y \in S : TRUE IN <<x>> \o SetToSeq(S \ {x})

\* sorted(a_set)
SortedSet(S) == Sorted(SetToSeq(S))

Range(s) == {s[i] : i \in DOMAIN s}

\* A str as the sequence of its tokens: "" has none, an entity-id is one
\* (entity-ids hold neither ',' nor ':').
Tok(s) == IF s = "" THEN <<>> ELSE <<s>>

\* ','.join(ids), as tokens
RECURSIVE Join(_)
Join(ids) ==
    IF ids = <<>> THEN <<>>
    ELSE IF Len(ids) = 1 THEN Tok(ids[1])
    ELSE Tok(ids[1]) \o <<",">> \o Join(Tail(ids))

-----------------------------------------------------------------------------
(* The heap *)

\* The keys of a preferences document that hold a list of objects.
SectionKeys == {"energy_sources", "device_consumption"}

\* Allocation: the new object's address is Len(h) + 1.
Alloc(h, obj) == Append(h, obj)

\* The items of the list object at address a, as values.
DerefList(h, a) == [i \in 1..Len(h[a]) |-> h[h[a][i]]]

\* The document at address r as a value (sections as sequences of dicts).
DerefDoc(h, r) ==
    [k \in DOMAIN h[r] |->
        IF k \in SectionKeys THEN DerefList(h, h[r][k]) ELSE h[r][k]]

\* Store a list of dict values: the items, then the list object (last).
StoreList(h, items) ==
    LET n == Len(h)
        k == Len(items)
    IN  (h \o items) \o << [i \in 1..k |-> n + i] >>

\* Store a document value: its section lists, then the dict (last).
StoreDoc(h, doc) ==
    LET hasS == "energy_sources" \in DOMAIN doc
        hasC == "device_consumption" \in DOMAIN doc
        h1 == IF hasS THEN StoreList(h, doc["energy_sources"]) ELSE h
        aS == Len(h1)
        h2 == IF hasC THEN StoreList(h1, doc["device_consumption"]) ELSE h1
        aC == Len(h2)
        d  == [k \in DOMAIN doc |->
                 IF k = "energy_sources" THEN aS
                 ELSE IF k = "device_consumption" THEN aC
                 ELSE doc[k]]
    IN  Alloc(h2, d)

\* A plausible slip: copy.copy(doc) / dict(doc) in place of copy.deepcopy(doc).
\* Only the top-level dict is new; its lists and their items are shared.
ShallowCopy(h, r) == Alloc(h, h[r])

\* copy.deepcopy(doc): every list and every dict of the document is copied
\* to a fresh address; the copy's dict is the last object allocated.
Deepcopy(h, r) == StoreDoc(h, DerefDoc(h, r))

\* d.get(section, []) on the document at r: the list object's address, a
\* fresh empty list when the key is missing.  Returns <<heap, address>>.
SectionList(h, r, key) ==
    IF key \in DOMAIN h[r] THEN <<h, h[r][key]>>
    ELSE <<Alloc(h, <<>>), Len(h) + 1>>

\* lst.append(ref) on the list object at address a
ListAppend(h, a, ref) == [h EXCEPT ![a] = Append(@, ref)]

\* d[k] = v on the dict object at address a
DictSet(h, a, k, v) == [h EXCEPT ![a] = SetKey(@, k, v)]

-----------------------------------------------------------------------------
(* _source_key, merge_prefs *)

FlowIds(s, listKey, idKey) ==
    LET flows == GetOr(s, listKey, <<>>)
    IN  [i \in 1..Len(flows) |-> GetOr(flows[i], idKey, "")]

\* _source_key(source) for the dict object at address a: the key string as
\* its tokens.  Other types format id(source), the object's address.
SourceKey(h, a) ==
    LET s == h[a]
        stype == GetOr(s, "type", "")
    IN  IF stype = "grid" THEN
            <<"grid", ":">> \o Join(Sorted(FlowIds(s, "flow_from", "stat_energy_from")))
                \o <<":">> \o Join(Sorted(FlowIds(s, "flow_to", "stat_energy_to")))
        ELSE IF stype = "solar" THEN
            <<"solar", ":">> \o Tok(GetOr(s, "stat_energy_from", ""))
        ELSE IF stype = "battery" THEN
            <<"battery", ":">> \o Tok(GetOr(s, "stat_energy_from", ""))
                \o <<":">> \o Tok(GetOr(s, "stat_energy_to", ""))
        ELSE Tok(stype) \o <<":", a>>

\* _source_keys(sources) for the list object at address l
SourceKeys(h, l) == {SourceKey(h, h[l][i]) : i \in 1..Len(h[l])}

\* for source in proposed.get("energy_sources", []): append when its key is new
RECURSIVE MergeSources(_, _, _, _, _)
MergeSources(h, l, keys, props, i) ==
    IF i > Len(props) THEN h
    ELSE LET key == SourceKey(h, props[i])
         IN  IF key \notin keys
             THEN MergeSources(ListAppend(h, l, props[i]), l, keys \cup {key}, props, i + 1)
             ELSE MergeSources(h, l, keys, props, i + 1)

\* for entry in proposed.get("device_consumption", []): append when new
RECURSIVE MergeConsumption(_, _, _, _, _)
MergeConsumption(h, l, stats, props, i) ==
    IF i > Len(props) THEN h
    ELSE LET stat == Get(h[props[i]], "stat_consumption")
         IN  IF stat \notin stats
             THEN MergeConsumption(ListAppend(h, l, props[i]), l, stats \cup {stat}, props, i + 1)
             ELSE MergeConsumption(h, l, stats, props, i + 1)

\* merge_prefs(current, proposed): <<heap after the call, address of merged>>
merge_prefs(h, current, proposed) ==
    LET h1 == Deepcopy(h, current)
        merged == Len(h1)
        es == SectionList(h1, merged, "energy_sources")
        propS == IF "energy_sources" \in DOMAIN h[proposed]
                 THEN h[h[proposed]["energy_sources"]] ELSE <<>>
        h2 == MergeSources(es[1], es[2], SourceKeys(es[1], es[2]), propS, 1)
        h3 == DictSet(h2, merged, "energy_sources", es[2])
        ec == SectionList(h3, merged, "device_consumption")
        propC == IF "device_consumption" \in DOMAIN h[proposed]
                 THEN h[h[proposed]["device_consumption"]] ELSE <<>>
        stats == {Get(ec[1][ec[1][ec[2]][i]], "stat_consumption") : i \in 1..Len(ec[1][ec[2]])}
        h4 == MergeConsumption(ec[1], ec[2], stats, propC, 1)
        h5 == DictSet(h4, merged, "device_consumption", ec[2])
    IN  <<h5, merged>>


-----------------------------------------------------------------------------
(* build_topology_aware_config, apply_topology_prefs *)

\* [a for a in seq if P(a)]
Filter(seq, P(_)) == SelectSeq(seq, P)

IsPreferred(a) == a.preferred

IsSkipped(a) == ~a.preferred

Max(S) == CHOOSE x \in S : \A y \in S : y <= x

\* {key(a): val(a) for a in seq if cond(a)}; a later item overwrites an
\* earlier one with the same key.
DictOf(seq, key(_), val(_), cond(_)) ==
    LET at(k) == {i \in DOMAIN seq : cond(seq[i]) /\ key(seq[i]) = k}
        keys  == {key(seq[i]) : i \in {j \in DOMAIN seq : cond(seq[j])}}
    IN  [k \in keys |-> val(seq[Max(at(k))])]

\* The dict a plain source/entry starts as, plus the optional key when the
\* value is truthy.
WithIf(d, k, v) == IF Truthy(v) THEN SetKey(d, k, v) ELSE d

\* build_topology_aware_config(topo), as a value
build_topology_aware_config(T) ==
    LET preferred == Filter(T, IsPreferred)
        OfRole(r) == LET Is(a) == a.role = r IN Filter(preferred, Is)
        grid_imports == OfRole("grid_import")
        grid_exports == OfRole("grid_export")
        grid == IF grid_imports # <<>> \/ grid_exports # <<>>
                THEN << [type |-> "grid",
                         flow_from |-> [i \in 1..Len(grid_imports) |->
                                          [stat_energy_from |-> grid_imports[i].entity_id]],
                         flow_to |-> [i \in 1..Len(grid_exports) |->
                                          [stat_energy_to |-> grid_exports[i].entity_id]]] >>
                ELSE <<>>
        solars == OfRole("solar")
        solar == [i \in 1..Len(solars) |->
                    WithIf([type |-> "solar", stat_energy_from |-> solars[i].entity_id],
                           "stat_rate", solars[i].rate_entity_id)]
        batt_discharge == OfRole("battery_discharge")
        batt_charge == OfRole("battery_charge")
        both == batt_discharge \o batt_charge
        rated == {i \in DOMAIN both : Truthy(both[i].rate_entity_id)}
        batt_rate == IF rated = {} THEN None
                     ELSE both[CHOOSE i \in rated : \A j \in rated : i <= j].rate_entity_id
        b0 == [type |-> "battery"]
        b1 == IF batt_discharge # <<>>
              THEN SetKey(b0, "stat_energy_from", batt_discharge[1].entity_id) ELSE b0
        b2 == IF batt_charge # <<>>
              THEN SetKey(b1, "stat_energy_to", batt_charge[1].entity_id) ELSE b1
        battery == IF both # <<>> THEN << WithIf(b2, "stat_rate", batt_rate) >> ELSE <<>>
        cons == OfRole("device_consumption")
    IN  [energy_sources |-> grid \o solar \o battery,
         device_consumption |-> [i \in 1..Len(cons) |->
             WithIf(WithIf([stat_consumption |-> cons[i].entity_id],
                           "included_in_stat", cons[i].parent_entity_id),
                    "stat_rate", cons[i].rate_entity_id)]]

\* _extract_source_entity_ids(source)
extract_source_entity_ids(s) ==
    {e \in Range(FlowIds(s, "flow_from", "stat_energy_from")) : Truthy(e)}
    \cup {e \in Range(FlowIds(s, "flow_to", "stat_energy_to")) : Truthy(e)}
    \cup {e \in {Get(s, "stat_energy_from"), Get(s, "stat_energy_to")} : Truthy(e)}

IsConsumption(a) == a.role = "device_consumption"

IsSource(a) == a.role # "device_consumption"

EntityId(a) == a.entity_id

HasParent(a) == IsConsumption(a) /\ Truthy(a.parent_entity_id)

ParentOf(a) == a.parent_entity_id

HasRate(a) == IsConsumption(a) /\ Truthy(a.rate_entity_id)

RateOf(a) == a.rate_entity_id

\* An entry with the topology's parent and rate written over its own.
WithMetadata(entry, stat, parents, rates) ==
    LET e1 == IF stat \in DOMAIN parents
              THEN SetKey(entry, "included_in_stat", parents[stat]) ELSE entry
    IN  IF stat \in DOMAIN rates THEN SetKey(e1, "stat_rate", rates[stat]) ELSE e1

\* The body of the loop over existing_consumption, for the entry at address
\* a.  st = [h, keep, wanted]: the heap, keep_consumption (addresses) and
\* what is left of wanted_consumption.
KeepEntry(st, a, skipped_eids, parents, rates) ==
    LET entry == st.h[a]
        stat == GetOr(entry, "stat_consumption", "")
    IN  IF stat \in st.wanted THEN
            \* updated = copy.deepcopy(entry), then the two writes;
            \* wanted_consumption.discard(stat)
            [h |-> Alloc(st.h, WithMetadata(entry, stat, parents, rates)),
             keep |-> Append(st.keep, Len(st.h) + 1),
             wanted |-> st.wanted \ {stat}]
        ELSE IF stat \notin skipped_eids THEN
            [st EXCEPT !.keep = Append(@, a)]
        ELSE st

\* for entry in existing_consumption
RECURSIVE ApplyConsumption(_, _, _, _, _, _)
ApplyConsumption(st, entries, i, skipped_eids, parents, rates) ==
    IF i > Len(entries) THEN st
    ELSE ApplyConsumption(KeepEntry(st, entries[i], skipped_eids, parents, rates),
                          entries, i + 1, skipped_eids, parents, rates)

\* for stat in sorted(wanted_consumption): append a new entry
RECURSIVE AddConsumption(_, _, _, _, _)
AddConsumption(st, stats, i, parents, rates) ==
    IF i > Len(stats) THEN st
    ELSE AddConsumption(
            [st EXCEPT !.h = Alloc(@, WithMetadata([stat_consumption |-> stats[i]],
                                                    stats[i], parents, rates)),
                       !.keep = Append(@, Len(st.h) + 1)],
            stats, i + 1, parents, rates)

\* The keys a source built by build_topology_aware_config can have.
ProposedKeys == {"type", "flow_from", "flow_to", "stat_energy_from", "stat_energy_to", "stat_rate"}

\* A plausible slip: the existing source is rebuilt from the proposed shape
\* when its rate is updated, which loses the user's fields.
KeepSourceRebuilt(st, a, skipped_eids, wanted_source_eids, proposed_source_rates) ==
    LET source == st.h[a]
        source_eids == extract_source_entity_ids(source)
        new_rate == Get(proposed_source_rates, SourceKey(st.h, a))
    IN  IF source_eids \cap skipped_eids # {} THEN st
        ELSE IF source_eids # {} /\ source_eids \subseteq wanted_source_eids THEN
             IF Truthy(new_rate) /\ Get(source, "stat_rate") # new_rate
             THEN [h |-> Alloc(st.h, SetKey([k \in (DOMAIN source) \cap ProposedKeys |-> source[k]],
                                            "stat_rate", new_rate)),
                   keep |-> Append(st.keep, Len(st.h) + 1),
                   matched |-> st.matched \cup source_eids]
             ELSE [st EXCEPT !.keep = Append(@, a), !.matched = @ \cup source_eids]
        ELSE [st EXCEPT !.keep = Append(@, a)]

\* A plausible slip: a source is dropped only when ALL its entities are skipped.
KeepSourceAllSkipped(st, a, skipped_eids, wanted_source_eids, proposed_source_rates) ==
    LET source == st.h[a]
        source_eids == extract_source_entity_ids(source)
        new_rate == Get(proposed_source_rates, SourceKey(st.h, a))
    IN  IF source_eids # {} /\ source_eids \subseteq skipped_eids THEN st
        ELSE IF source_eids # {} /\ source_eids \subseteq wanted_source_eids THEN
             IF Truthy(new_rate) /\ Get(source, "stat_rate") # new_rate
             THEN [h |-> Alloc(st.h, SetKey(source, "stat_rate", new_rate)),
                   keep |-> Append(st.keep, Len(st.h) + 1),
                   matched |-> st.matched \cup source_eids]
             ELSE [st EXCEPT !.keep = Append(@, a), !.matched = @ \cup source_eids]
        ELSE [st EXCEPT !.keep = Append(@, a)]

\* The body of the loop over existing_sources, for the source at address a.
\* st = [h, keep, matched]: the heap, keep_sources (addresses) and
\* matched_preferred_eids.
KeepSource(st, a, skipped_eids, wanted_source_eids, proposed_source_rates) ==
    LET source == st.h[a]
        source_eids == extract_source_entity_ids(source)
        new_rate == Get(proposed_source_rates, SourceKey(st.h, a))
    IN  IF source_eids \cap skipped_eids # {} THEN st
        ELSE IF source_eids # {} /\ source_eids \subseteq wanted_source_eids THEN
             IF Truthy(new_rate) /\ Get(source, "stat_rate") # new_rate
             THEN \* source = copy.deepcopy(source); source["stat_rate"] = new_rate
                  [h |-> Alloc(st.h, SetKey(source, "stat_rate", new_rate)),
                   keep |-> Append(st.keep, Len(st.h) + 1),
                   matched |-> st.matched \cup source_eids]
             ELSE [st EXCEPT !.keep = Append(@, a), !.matched = @ \cup source_eids]
        ELSE [st EXCEPT !.keep = Append(@, a)]

\* for source in existing_sources
RECURSIVE ApplySources(_, _, _, _, _, _)
ApplySources(st, sources, i, skipped_eids, wanted_source_eids, proposed_source_rates) ==
    IF i > Len(sources) THEN st
    ELSE ApplySources(KeepSource(st, sources[i], skipped_eids, wanted_source_eids,
                                 proposed_source_rates),
                      sources, i + 1, skipped_eids, wanted_source_eids,
                      proposed_source_rates)

\* The body of the loop over proposed["energy_sources"]: append the source
\* at address a unless its entities are all matched.
AddSource(st, a) ==
    LET source_eids == extract_source_entity_ids(st.h[a])
    IN  IF ~(source_eids \subseteq st.matched)
        THEN [st EXCEPT !.keep = Append(@, a), !.matched = @ \cup source_eids]
        ELSE st

\* for source in proposed.get("energy_sources", [])
RECURSIVE AddSources(_, _, _)
AddSources(st, props, i) ==
    IF i > Len(props) THEN st ELSE AddSources(AddSource(st, props[i]), props, i + 1)

\* result[key] = keep: the list st.keep becomes a new list object and the
\* document at address doc refers to it.
SetSection(st, doc, key) ==
    LET h2 == Alloc(st.h, st.keep)
    IN  DictSet(h2, doc, key, Len(h2))

\* The energy-sources half of apply_topology_prefs, with the proposed config
\* (the last object of h4) built: existing is result.get("energy_sources", []).
ApplyProposed(h4, result, existing, skipped_eids, wanted_source_eids) ==
    LET props == h4[h4[Len(h4)]["energy_sources"]]
        StatRate(a) == Get(h4[a], "stat_rate")
        Key(a) == SourceKey(h4, a)
        Every(a) == TRUE
        proposed_source_rates == DictOf(props, Key, StatRate, Every)
        s1 == ApplySources([h |-> h4, keep |-> <<>>, matched |-> {}],
                           h4[existing], 1, skipped_eids, wanted_source_eids,
                           proposed_source_rates)
    IN  <<SetSection(AddSources(s1, props, 1), result, "energy_sources"), result>>

\* --- Energy sources: proposed = build_topology_aware_config(topo), then the
\* filter loop and the append loop.
ApplyEnergySources(h3, result, T, skipped_eids, wanted_source_eids) ==
    LET es == SectionList(h3, result, "energy_sources")
    IN  ApplyProposed(StoreDoc(es[1], build_topology_aware_config(T)), result, es[2],
                      skipped_eids, wanted_source_eids)

\* --- Device consumption: the loop over the existing entries, then the new
\* entries; the heap with result["device_consumption"] written.
ApplyDeviceConsumption(h1, result, preferred, skipped_eids) ==
    LET wanted_consumption ==
            {preferred[i].entity_id : i \in {j \in DOMAIN preferred : IsConsumption(preferred[j])}}
        consumption_parents == DictOf(preferred, EntityId, ParentOf, HasParent)
        consumption_rates == DictOf(preferred, EntityId, RateOf, HasRate)
        ec == SectionList(h1, result, "device_consumption")
        c1 == ApplyConsumption([h |-> ec[1], keep |-> <<>>, wanted |-> wanted_consumption],
                               ec[1][ec[2]], 1, skipped_eids,
                               consumption_parents, consumption_rates)
    IN  SetSection(AddConsumption(c1, SortedSet(c1.wanted), 1,
                                  consumption_parents, consumption_rates),
                   result, "device_consumption")

\* The body of apply_topology_prefs after result = copy.deepcopy(current):
\* result is the last object of h1.
ApplyToCopy(h1, T) ==
    LET preferred == Filter(T, IsPreferred)
        skipped == Filter(T, IsSkipped)
        skipped_eids == {skipped[i].entity_id : i \in DOMAIN skipped}
        wanted_source_eids ==
            {preferred[i].entity_id : i \in {j \in DOMAIN preferred : IsSource(preferred[j])}}
    IN  ApplyEnergySources(ApplyDeviceConsumption(h1, Len(h1), preferred, skipped_eids),
                           Len(h1), T, skipped_eids, wanted_source_eids)

\* apply_topology_prefs(current, topo): <<heap after the call, address of result>>
apply_topology_prefs(h, current, T) == ApplyToCopy(Deepcopy(h, current), T)


-----------------------------------------------------------------------------
(* remove_stale_references *)

\* [f for f in flows if f.get(idKey) not in stale_ids]
KeepFlows(flows, idKey, stale_ids) ==
    LET Fresh(f) == Get(f, idKey) \notin stale_ids IN SelectSeq(flows, Fresh)

\* if listKey in source: filter the flow list, delete the key when it is empty
CleanFlows(source, listKey, idKey, stale_ids) ==
    IF listKey \in DOMAIN source
    THEN LET kept == KeepFlows(source[listKey], idKey, stale_ids)
         IN  IF kept = <<>> THEN DelKey(source, listKey)
             ELSE SetKey(source, listKey, kept)
    ELSE source

\* if source.get(k) in stale_ids: the key is left in place
PopStaleKept(source, k, stale_ids) == source

\* if source.get(k) in stale_ids: source.pop(k, None)
PopStale(source, k, stale_ids) ==
    IF Get(source, k) \in stale_ids THEN DelKey(source, k) ELSE source

\* What the loop body leaves in one source dict.
CleanSource(source, stale_ids) ==
    PopStale(PopStale(CleanFlows(CleanFlows(source, "flow_from", "stat_energy_from", stale_ids),
                                 "flow_to", "stat_energy_to", stale_ids),
                      "stat_energy_from", stale_ids),
             "stat_energy_to", stale_ids)

has_refs(source) ==
    \/ GetOr(source, "flow_from", <<>>) # <<>>
    \/ GetOr(source, "flow_to", <<>>) # <<>>
    \/ Truthy(Get(source, "stat_energy_from"))
    \/ Truthy(Get(source, "stat_energy_to"))
    \/ Truthy(Get(source, "stat_cost"))
    \/ Truthy(Get(source, "stat_compensation"))

\* The loop over cleaned["energy_sources"]: each source dict is written in
\* place.  st = [h, keep].
RECURSIVE CleanSources(_, _, _, _)
CleanSources(st, sources, i, stale_ids) ==
    IF i > Len(sources) THEN st
    ELSE LET a == sources[i]
             source == CleanSource(st.h[a], stale_ids)
             h1 == [st.h EXCEPT ![a] = source]
         IN  CleanSources([h |-> h1,
                           keep |-> IF has_refs(source) THEN Append(st.keep, a) ELSE st.keep],
                          sources, i + 1, stale_ids)

\* cleaned["device_consumption"] = [d for d in ... if d.get("stat_consumption")
\* not in stale_ids]
CleanConsumption(h3, cleaned, stale_ids) ==
    LET ec == SectionList(h3, cleaned, "device_consumption")
        Alive(a) == Get(ec[1][a], "stat_consumption") \notin stale_ids
    IN  SetSection([h |-> ec[1], keep |-> SelectSeq(ec[1][ec[2]], Alive)],
                   cleaned, "device_consumption")

\* The body of remove_stale_references after cleaned = copy.deepcopy(prefs):
\* cleaned is the last object of h1.
CleanCopy(h1, stale_ids) ==
    LET es == SectionList(h1, Len(h1), "energy_sources")
        s1 == CleanSources([h |-> es[1], keep |-> <<>>], es[1][es[2]], 1, stale_ids)
    IN  <<CleanConsumption(SetSection(s1, Len(h1), "energy_sources"), Len(h1), stale_ids),
          Len(h1)>>

\* remove_stale_references(prefs, stale_ids): <<heap after the call, address of cleaned>>
remove_stale_references(h, prefs, stale_ids) == CleanCopy(Deepcopy(h, prefs), stale_ids)

-----------------------------------------------------------------------------
(* Inputs of the preferences transformer *)

\* The inputs of one call hold at most MaxSize list items in all (energy
\* sources, device_consumption entries, role assignments, stale ids).
MaxSize == 3

Eids == {"e1", "e2"}

\* Existing energy sources: managed types with and without user fields, a
\* grid source that mixes a managed id with one of the user's, gas sources.
SourceValues ==
    { [type |-> "grid",
       flow_from |-> << [stat_energy_from |-> "e1", stat_cost |-> "p1"] >>,
       flow_to |-> << [stat_energy_to |-> "e2"] >>,
       cost_adjustment_day |-> "0.0"],
      [type |-> "grid",
       flow_from |-> << [stat_energy_from |-> "e1"], [stat_energy_from |-> "e3"] >>,
       flow_to |-> <<>>],
      [type |-> "solar", stat_energy_from |-> "e1", stat_rate |-> "r2", stat_cost |-> "p1"],
      [type |-> "solar", stat_energy_from |-> "e2"],
      [type |-> "battery", stat_energy_from |-> "e1", stat_energy_to |-> "e2"],
      [type |-> "gas", stat_energy_from |-> "e3"],
      [type |-> "gas", stat_energy_from |-> "e1"] }

EntryValues ==
    { [stat_consumption |-> "e1"],
      [stat_consumption |-> "e1", included_in_stat |-> "r2", stat_rate |-> "r2"],
      [stat_consumption |-> "e2", name |-> "p1"],
      [stat_consumption |-> "e3"] }

\* A preferences document with the given sections, or (bare) with neither
\* key; a key of the user's is always there.
PrefsDoc(ss, cs, bare) ==
    IF bare THEN [device_consumption_water |-> "w"]
    ELSE [energy_sources |-> ss, device_consumption |-> cs, device_consumption_water |-> "w"]

MayBeBare(ss, cs) == IF ss = <<>> /\ cs = <<>> THEN BOOLEAN ELSE {FALSE}

SourceRoles == {"grid_import", "grid_export", "solar", "battery_discharge", "battery_charge"}

\* EnergyRole values (platform and reason are never read by the transformer).
\* The topology knows a power sensor and a parent for e1 and none for e2.
RateFor(e) == IF e = "e1" THEN "r1" ELSE None

ParentFor(e) == IF e = "e1" THEN "p1" ELSE None

RoleAssignments ==
    { [role |-> r, entity_id |-> e, preferred |-> TRUE,
       parent_entity_id |-> None, rate_entity_id |-> RateFor(e)] :
        r \in SourceRoles, e \in Eids }
    \cup { [role |-> "device_consumption", entity_id |-> e, preferred |-> TRUE,
            parent_entity_id |-> ParentFor(e), rate_entity_id |-> RateFor(e)] : e \in Eids }
    \cup { [role |-> "solar", entity_id |-> e, preferred |-> FALSE,
            parent_entity_id |-> None, rate_entity_id |-> None] : e \in Eids }

-----------------------------------------------------------------------------
(* The transformer's functions as actions *)

\* The arguments of apply_topology_prefs: a document and a topology.
InitApply ==
    /\ CliIdle /\ EngineIdle /\ RegistryIdle
    /\ mode = "apply"
    /\ \E i \in 0..MaxSize : \E j \in 0..(MaxSize - i) : \E k \in 0..(MaxSize - i - j) :
       \E ss \in [1..i -> SourceValues] : \E cs \in [1..j -> EntryValues] :
       \E bare \in MayBeBare(ss, cs) :
         /\ heap = StoreDoc(<<>>, PrefsDoc(ss, cs, bare))
         /\ topo \in [1..k -> RoleAssignments]
    /\ curRoot = Len(heap)
    /\ heap0 = heap
    /\ propRoot = 0
    /\ staleIds = {}
    /\ outRoot = 0
    /\ out2Root = 0

\* result = apply_topology_prefs(current, topo)
Apply ==
    /\ mode = "apply" /\ outRoot = 0
    /\ LET r == apply_topology_prefs(heap, curRoot, topo)
       IN  heap' = r[1] /\ outRoot' = r[2]
    /\ heap0' = heap
    /\ UNCHANGED <<mode, curRoot, propRoot, topo, staleIds, out2Root, cliVars, engineVars, registryVars>>

\* apply_topology_prefs(result, topo)
ApplyAgain ==
    /\ mode = "apply" /\ outRoot # 0 /\ out2Root = 0
    /\ LET r == apply_topology_prefs(heap, outRoot, topo)
       IN  heap' = r[1] /\ out2Root' = r[2]
    /\ heap0' = heap
    /\ UNCHANGED <<mode, curRoot, propRoot, topo, staleIds, outRoot, cliVars, engineVars, registryVars>>

NextApply == Apply \/ ApplyAgain

SpecApply == InitApply /\ [][NextApply]_vars

\* The arguments of merge_prefs: the current document and a proposed config
\* (build_energy_config gives it both sections; its sources may be of any type).
InitMerge ==
    /\ CliIdle /\ EngineIdle /\ RegistryIdle
    /\ mode = "merge"
    /\ \E i \in 0..MaxSize : \E j \in 0..(MaxSize - i) :
       \E k \in 0..(MaxSize - i - j) : \E l \in 0..(MaxSize - i - j - k) :
       \E ss \in [1..i -> SourceValues] : \E cs \in [1..j -> EntryValues] :
       \E ps \in [1..k -> SourceValues] : \E pc \in [1..l -> EntryValues] :
       \E bare \in MayBeBare(ss, cs) :
         LET h1 == StoreDoc(<<>>, PrefsDoc(ss, cs, bare))
         IN  /\ curRoot = Len(h1)
             /\ heap = StoreDoc(h1, [energy_sources |-> ps, device_consumption |-> pc])
    /\ propRoot = Len(heap)
    /\ heap0 = heap
    /\ topo = <<>>
    /\ staleIds = {}
    /\ outRoot = 0
    /\ out2Root = 0

\* merged = merge_prefs(current, proposed)
Merge ==
    /\ mode = "merge" /\ outRoot = 0
    /\ LET r == merge_prefs(heap, curRoot, propRoot)
       IN  heap' = r[1] /\ outRoot' = r[2]
    /\ heap0' = heap
    /\ UNCHANGED <<mode, curRoot, propRoot, topo, staleIds, out2Root, cliVars, engineVars, registryVars>>

\* merge_prefs(merged, proposed)
MergeAgain ==
    /\ mode = "merge" /\ outRoot # 0 /\ out2Root = 0
    /\ LET r == merge_prefs(heap, outRoot, propRoot)
       IN  heap' = r[1] /\ out2Root' = r[2]
    /\ heap0' = heap
    /\ UNCHANGED <<mode, curRoot, propRoot, topo, staleIds, outRoot, cliVars, engineVars, registryVars>>

NextMerge == Merge \/ MergeAgain

SpecMerge == InitMerge /\ [][NextMerge]_vars

\* The ids a caller may find stale.
StaleCandidates == {"e1", "e2", "e3"}

\* The arguments of remove_stale_references: a document and a set of ids.
InitStale ==
    /\ CliIdle /\ EngineIdle /\ RegistryIdle
    /\ mode = "stale"
    /\ \E i \in 0..MaxSize : \E j \in 0..(MaxSize - i) :
       \E ss \in [1..i -> SourceValues] : \E cs \in [1..j -> EntryValues] :
       \E bare \in MayBeBare(ss, cs) :
         /\ heap = StoreDoc(<<>>, PrefsDoc(ss, cs, bare))
         /\ staleIds \in {S \in SUBSET StaleCandidates : Cardinality(S) <= MaxSize - i - j}
    /\ curRoot = Len(heap)
    /\ heap0 = heap
    /\ propRoot = 0
    /\ topo = <<>>
    /\ outRoot = 0
    /\ out2Root = 0

\* cleaned = remove_stale_references(prefs, stale_ids)
RemoveStale ==
    /\ mode = "stale" /\ outRoot = 0
    /\ LET r == remove_stale_references(heap, curRoot, staleIds)
       IN  heap' = r[1] /\ outRoot' = r[2]
    /\ heap0' = heap
    /\ UNCHANGED <<mode, curRoot, propRoot, topo, staleIds, out2Root, cliVars, engineVars, registryVars>>

NextStale == RemoveStale

SpecStale == InitStale /\ [][NextStale]_vars

\* Any one of the transformer's three functions, on any of its inputs.
InitPrefs == InitApply \/ InitMerge \/ InitStale

NextPrefs == Apply \/ ApplyAgain \/ Merge \/ MergeAgain \/ RemoveStale

SpecPrefs == InitPrefs /\ [][NextPrefs]_vars

-----------------------------------------------------------------------------
(* What a call was given and what it returned *)

\* The function under test has been called.
Called == outRoot # 0

\* The input of the last call, as it was when the call was made, and the
\* document the call returned.
InputDoc == DerefDoc(heap0, IF out2Root = 0 THEN curRoot ELSE outRoot)

OutputDoc == DerefDoc(heap, IF out2Root = 0 THEN outRoot ELSE out2Root)

InSources == GetOr(InputDoc, "energy_sources", <<>>)

OutSources == GetOr(OutputDoc, "energy_sources", <<>>)

InEntries == GetOr(InputDoc, "device_consumption", <<>>)

OutEntries == GetOr(OutputDoc, "device_consumption", <<>>)

\* Entity-ids of the topology's non-preferred assignments.
SkippedEids == {topo[i].entity_id : i \in {j \in DOMAIN topo : ~topo[j].preferred}}

\* Entity-ids of the topology's preferred device_consumption assignments.
WantedConsumption ==
    {topo[i].entity_id :
        i \in {j \in DOMAIN topo : topo[j].preferred /\ topo[j].role = "device_consumption"}}

ProposedSources == build_topology_aware_config(topo).energy_sources

\* The existing sources that reference no skipped entity, in input order.
NotSkipped(s) == extract_source_entity_ids(s) \cap SkippedEids = {}

KeptSources == SelectSeq(InSources, NotSkipped)

\* The sources of the output that follow the kept ones.
AppendedSources ==
    IF Len(OutSources) >= Len(KeptSources)
    THEN SubSeq(OutSources, Len(KeptSources) + 1, Len(OutSources)) ELSE <<>>

\* The dedup key of a source value of a managed type.
KeyOf(s) == SourceKey(<<s>>, 1)

RefsOf(sources) == UNION {extract_source_entity_ids(sources[i]) : i \in DOMAIN sources}

\* s is a subsequence of t: s's items appear in t in the same order.
RECURSIVE IsSubsequence(_, _)
IsSubsequence(s, t) ==
    IF s = <<>> THEN TRUE
    ELSE IF t = <<>> THEN FALSE
    ELSE IF Head(s) = Head(t) THEN IsSubsequence(Tail(s), Tail(t))
    ELSE IsSubsequence(s, Tail(t))

-----------------------------------------------------------------------------
(* Claims about apply_topology_prefs *)

\* C2: every source apply_topology_prefs keeps comes out with all its keys
\* and values unchanged (nested flow fields and top-level user fields
\* alike), except stat_rate, which changes only to the rate of a proposed
\* source with the same dedup key; the kept sources are as many as the
\* input's sources that were not dropped (none is split or re-shaped).
C2_UserFieldsPreserved ==
    (mode = "apply" /\ Called) =>
        /\ Len(OutSources) >= Len(KeptSources)
        /\ \A i \in DOMAIN KeptSources :
             LET old == KeptSources[i]
                 new == OutSources[i]
             IN  /\ (DOMAIN new) \ {"stat_rate"} = (DOMAIN old) \ {"stat_rate"}
                 /\ \A k \in (DOMAIN old) \ {"stat_rate"} : new[k] = old[k]
                 /\ Get(new, "stat_rate") # Get(old, "stat_rate") =>
                      /\ old.type \in {"grid", "solar", "battery"}
                      /\ \E j \in DOMAIN ProposedSources :
                           /\ KeyOf(ProposedSources[j]) = KeyOf(old)
                           /\ Get(ProposedSources[j], "stat_rate") = Get(new, "stat_rate")

\* C2 witness: a kept source that carries a user field has had its
\* stat_rate rewritten.
C2_Witness ==
    /\ mode = "apply" /\ Called
    /\ Len(OutSources) >= Len(KeptSources)
    /\ \E i \in DOMAIN KeptSources :
         /\ "stat_cost" \in DOMAIN KeptSources[i]
         /\ Get(OutSources[i], "stat_rate") # Get(KeptSources[i], "stat_rate")

\* C4: applying the same topology to the result of apply_topology_prefs
\* returns an equal document: same sources, same entries, same fields,
\* same order.
C4_ApplyIdempotent ==
    (mode = "apply" /\ out2Root # 0) =>
        DerefDoc(heap, out2Root) = DerefDoc(heap, outRoot)

\* The sources of the output that stand where the kept ones should.
KeptOutSources ==
    IF Len(OutSources) >= Len(KeptSources)
    THEN SubSeq(OutSources, 1, Len(KeptSources)) ELSE <<>>

\* C9: an existing source is dropped exactly when it references the entity
\* of a non-preferred assignment; the others (gas sources included) stay in
\* their order, at most their stat_rate changed; after them come proposed
\* sources only, in proposed order, and every proposed source with an
\* entity-id that neither a kept source nor an earlier proposed source
\* references is among them.
C9_SourcesDroppedKeptAppended ==
    (mode = "apply" /\ Called) =>
        /\ Len(OutSources) >= Len(KeptSources)
        /\ \A i \in DOMAIN KeptSources :
             DelKey(OutSources[i], "stat_rate") = DelKey(KeptSources[i], "stat_rate")
        /\ IsSubsequence(AppendedSources, ProposedSources)
        /\ \A j \in DOMAIN ProposedSources :
             LET covered == RefsOf(KeptOutSources) \cup RefsOf(SubSeq(ProposedSources, 1, j - 1))
             IN  ~(extract_source_entity_ids(ProposedSources[j]) \subseteq covered)
                    => ProposedSources[j] \in Range(AppendedSources)

\* C9 witness: one existing source was dropped, a gas source was kept and a
\* proposed source was appended.
C9_Witness ==
    /\ mode = "apply" /\ Called
    /\ Len(KeptSources) < Len(InSources)
    /\ \E i \in DOMAIN KeptSources : KeptSources[i].type = "gas"
    /\ AppendedSources # <<>>

\* What C10 says becomes of one existing entry: <<>> when it is dropped.
C10_Expected(entry) ==
    LET stat == GetOr(entry, "stat_consumption", "")
        hit == {i \in DOMAIN topo : /\ topo[i].preferred
                                    /\ topo[i].role = "device_consumption"
                                    /\ topo[i].entity_id = stat}
        IsHit(a) == a.preferred /\ a.role = "device_consumption" /\ a.entity_id = stat
        parents == DictOf(topo, EntityId, ParentOf, LAMBDA a : IsHit(a) /\ Truthy(a.parent_entity_id))
        rates == DictOf(topo, EntityId, RateOf, LAMBDA a : IsHit(a) /\ Truthy(a.rate_entity_id))
    IN  IF hit # {} THEN << WithMetadata(entry, stat, parents, rates) >>
        ELSE IF stat \in SkippedEids THEN <<>>
        ELSE << entry >>

RECURSIVE C10_ExpectedAll(_)
C10_ExpectedAll(entries) ==
    IF entries = <<>> THEN <<>>
    ELSE C10_Expected(Head(entries)) \o C10_ExpectedAll(Tail(entries))

\* C10: each existing device_consumption entry whose stat_consumption is a
\* preferred device_consumption entity is kept with the topology's parent
\* and rate written over its own; otherwise it is dropped when its
\* stat_consumption is the entity of a non-preferred assignment; otherwise
\* it is kept unchanged.  Every preferred device_consumption entity not yet
\* present is appended once.
C10_ConsumptionKeptDroppedAppended ==
    (mode = "apply" /\ Called) =>
        LET expected == C10_ExpectedAll(InEntries)
            rest == IF Len(OutEntries) >= Len(expected)
                    THEN SubSeq(OutEntries, Len(expected) + 1, Len(OutEntries)) ELSE <<>>
            present == {GetOr(InEntries[i], "stat_consumption", "") : i \in DOMAIN InEntries}
        IN  /\ Len(OutEntries) >= Len(expected)
            /\ SubSeq(OutEntries, 1, Len(expected)) = expected
            /\ \A e \in WantedConsumption \ present :
                 Cardinality({i \in DOMAIN rest : rest[i].stat_consumption = e}) = 1
            /\ \A i \in DOMAIN rest : rest[i].stat_consumption \in WantedConsumption \ present


-----------------------------------------------------------------------------
(* Claims about merge_prefs and about all three functions *)

\* The document a call was given, as it is after the call.
InputDocAfter == DerefDoc(heap, IF out2Root = 0 THEN curRoot ELSE outRoot)

\* C3: merge_prefs, apply_topology_prefs and remove_stale_references leave
\* their inputs as they were: after the call the input document, and
\* merge's proposed config, are structurally equal to what they were before
\* it, and every object that existed before the call is unchanged.
C3_InputsNotMutated ==
    Called =>
        /\ InputDocAfter = InputDoc
        /\ propRoot # 0 => DerefDoc(heap, propRoot) = DerefDoc(heap0, propRoot)
        /\ \A a \in 1..Len(heap0) : heap[a] = heap0[a]

\* C3 witness: merge_prefs has returned a document that differs from its
\* non-empty input (so the copy was written to).
C3_Witness ==
    /\ Called
    /\ OutputDoc # InputDoc
    /\ InSources # <<>> /\ InEntries # <<>>
    /\ mode = "merge"

\* C5: merging the same proposal a second time returns an equal document:
\* merge_prefs(merge_prefs(P, X), X) = merge_prefs(P, X), whatever the types
\* of X's sources; the second merge adds no source and no entry.
C5_MergeIdempotent ==
    (mode = "merge" /\ out2Root # 0) =>
        DerefDoc(heap, out2Root) = DerefDoc(heap, outRoot)


-----------------------------------------------------------------------------
(* The commands: energy, energy --topology, energy-audit *)

\* The steps of a command that touch the transport, render, or may return
\* early, in program order.  What is computed in between (build_energy_config,
\* merge_prefs, apply_topology_prefs, ...) sends nothing and is left out.
Open == [op |-> "open", arg |-> ""]

Send(msg_type) == [op |-> "send", arg |-> msg_type]

Close == [op |-> "close", arg |-> ""]

ReturnIf(cond) == [op |-> "return_if", arg |-> cond]

Render(what) == [op |-> "render", arg |-> what]

fetch_registries ==
    << Send("config/device_registry/list"),
       Send("config/entity_registry/list"),
       Send("config/area_registry/list") >>

fetch_span_trees == fetch_registries

fetch_energy_prefs == << Send("energy/get_prefs") >>

fetch_entity_states == << Send("get_states") >>

energy ==
    <<Open>> \o fetch_span_trees \o fetch_energy_prefs \o
    << Close, ReturnIf("no_trees"), Render("diff"), ReturnIf("dry_run"),
       Open, Send("energy/save_prefs"), Close >>

\* A plausible slip: the write is made before the diff is shown.
energy_topology_config_save_first ==
    <<Open>> \o fetch_registries \o fetch_entity_states \o fetch_energy_prefs \o
    << Close, ReturnIf("no_trees"), Render("topology"), ReturnIf("dry_run"),
       Open, Send("energy/save_prefs"), Close, Render("diff") >>

energy_topology_config ==
    <<Open>> \o fetch_registries \o fetch_entity_states \o fetch_energy_prefs \o
    << Close, ReturnIf("no_trees"), Render("topology"), Render("diff"),
       ReturnIf("dry_run"), Open, Send("energy/save_prefs"), Close >>

\* A plausible slip: the prune path has no dry-run gate.
energy_audit_ungated ==
    <<Open>> \o fetch_energy_prefs \o
    << Send("config/entity_registry/list"), Close,
       ReturnIf("no_stale"), ReturnIf("no_prune"),
       Open, Send("energy/save_prefs"), Close >>

energy_audit ==
    <<Open>> \o fetch_energy_prefs \o
    << Send("config/entity_registry/list"), Close,
       ReturnIf("no_stale"), ReturnIf("no_prune"), ReturnIf("dry_run"),
       Open, Send("energy/save_prefs"), Close >>

Commands == {"energy", "energy_topology", "energy_audit"}

Steps(c) ==
    CASE c = "energy" -> energy
      [] c = "energy_topology" -> energy_topology_config
      [] c = "energy_audit" -> energy_audit
      [] OTHER -> <<>>

Step == Steps(cmd)[ip]

Running == status = "running" /\ ip \in DOMAIN Steps(cmd)

\* The conditions of the early returns.
Holds(cond) ==
    CASE cond = "no_trees" -> noTrees
      [] cond = "dry_run" -> dry_run
      [] cond = "no_stale" -> noStale
      [] cond = "no_prune" -> ~prune

Event(ev, type, id) == [ev |-> ev, type |-> type, id |-> id]

\* How one send_command can go: the response says success; the response
\* says failure, or none comes (timeout, connection lost); the message
\* could not be sent at all.
Outcomes == {"ok", "error", "unsent"}

\* A plausible slip: a response is taken as the result without looking at
\* its success flag, and a timeout yields no result instead of an error.
RaisesOnlyUnsent(outcome) == outcome = "unsent"

\* send_command raises unless a response with success comes back.
Raises(outcome) == outcome # "ok"

\* A run of one command; what the server holds shows as noTrees / noStale.
InitCli ==
    /\ PrefsIdle /\ EngineIdle /\ RegistryIdle
    /\ cmd \in Commands
    /\ dry_run \in BOOLEAN
    /\ prune \in (IF cmd = "energy_audit" THEN BOOLEAN ELSE {FALSE})
    /\ noStale \in (IF cmd = "energy_audit" THEN BOOLEAN ELSE {FALSE})
    /\ noTrees \in (IF cmd = "energy_audit" THEN {FALSE} ELSE BOOLEAN)
    /\ ip = 1 /\ status = "running" /\ ws = FALSE /\ msg_id = 0 /\ log = <<>>

\* async with ctx.client() as client: a new HAClient connects and
\* authenticates, or raises.
OpenClient ==
    /\ Running /\ Step.op = "open"
    /\ \E ok \in BOOLEAN :
         IF ok
         THEN /\ ws' = TRUE /\ ip' = ip + 1
              /\ UNCHANGED <<status, log>>
         ELSE /\ ws' = FALSE /\ status' = "raised"
              /\ log' = Append(log, Event("error", "connect", 0))
              /\ UNCHANGED ip
    /\ msg_id' = 0
    /\ UNCHANGED <<cmd, prune, dry_run, noTrees, noStale, prefsVars, engineVars, registryVars>>

\* await client.send_command(msg_type, ...); an exception leaves the
\* `async with` block (the connection is closed) and ends the run.
SendCommand ==
    /\ Running /\ Step.op = "send"
    /\ IF ~ws
       THEN /\ status' = "raised"
            /\ log' = Append(log, Event("error", Step.arg, msg_id))
            /\ UNCHANGED <<ip, ws, msg_id>>
       ELSE \E outcome \in Outcomes :
              LET id == msg_id + 1
                  sent == IF outcome = "unsent" THEN log
                          ELSE Append(log, Event("send", Step.arg, id))
                  got == Append(sent, Event(IF outcome = "ok" THEN "result" ELSE "error",
                                            Step.arg, id))
              IN  /\ msg_id' = id
                  /\ log' = got
                  /\ IF Raises(outcome)
                     THEN ws' = FALSE /\ status' = "raised" /\ ip' = ip
                     ELSE ws' = ws /\ status' = status /\ ip' = ip + 1
    /\ UNCHANGED <<cmd, prune, dry_run, noTrees, noStale, prefsVars, engineVars, registryVars>>

\* The end of an `async with` block: HAClient.__aexit__
CloseClient ==
    /\ Running /\ Step.op = "close"
    /\ ws' = FALSE /\ ip' = ip + 1
    /\ UNCHANGED <<cmd, prune, dry_run, noTrees, noStale, status, msg_id, log, prefsVars, engineVars, registryVars>>

\* if <cond>: ...; return
EarlyReturn ==
    /\ Running /\ Step.op = "return_if"
    /\ IF Holds(Step.arg)
       THEN status' = "returned" /\ ip' = ip
       ELSE status' = status /\ ip' = ip + 1
    /\ UNCHANGED <<cmd, prune, dry_run, noTrees, noStale, ws, msg_id, log, prefsVars, engineVars, registryVars>>

\* render_topology(topo), _show_diff(...), _show_topology_diff(...)
RenderStep ==
    /\ Running /\ Step.op = "render"
    /\ log' = Append(log, Event("render", Step.arg, 0))
    /\ ip' = ip + 1
    /\ UNCHANGED <<cmd, prune, dry_run, noTrees, noStale, status, ws, msg_id, prefsVars, engineVars, registryVars>>

\* The command's last line: print_ok(...), and the coroutine returns.
Finish ==
    /\ status = "running" /\ ip = Len(Steps(cmd)) + 1
    /\ status' = "returned"
    /\ UNCHANGED <<cmd, prune, dry_run, noTrees, noStale, ip, ws, msg_id, log, prefsVars, engineVars, registryVars>>

NextCli == OpenClient \/ SendCommand \/ CloseClient \/ EarlyReturn \/ RenderStep \/ Finish

SpecCli == InitCli /\ [][NextCli]_vars

-----------------------------------------------------------------------------
(* Claims about the commands *)

SavePrefs == "energy/save_prefs"

\* Positions of the log where energy/save_prefs went out.
SaveSends == {i \in DOMAIN log : log[i].ev = "send" /\ log[i].type = SavePrefs}

\* The reads of a run of each command.
ReadsOf(c) ==
    CASE c = "energy" ->
           {"config/device_registry/list", "config/entity_registry/list",
            "config/area_registry/list", "energy/get_prefs"}
      [] c = "energy_topology" ->
           {"config/device_registry/list", "config/entity_registry/list",
            "config/area_registry/list", "get_states", "energy/get_prefs"}
      [] c = "energy_audit" -> {"energy/get_prefs", "config/entity_registry/list"}
      [] OTHER -> {}

\* C6: in a run of energy or energy --topology, energy/save_prefs is sent
\* at most once, and when it is sent every read of the run has returned
\* its result and the diff has been rendered.
C6_SaveOnceAfterReadsAndDiff ==
    cmd \in {"energy", "energy_topology"} =>
        /\ Cardinality(SaveSends) <= 1
        /\ \A i \in SaveSends :
             /\ \A t \in ReadsOf(cmd) :
                  \E j \in 1..(i - 1) : log[j].ev = "result" /\ log[j].type = t
             /\ \E j \in 1..(i - 1) : log[j].ev = "render" /\ log[j].type = "diff"

\* C6 witness: a run of energy --topology has sent energy/save_prefs and
\* returned.
C6_Witness ==
    cmd = "energy_topology" /\ SaveSends # {} /\ status = "returned"

\* A read of the run has failed.
ReadFailed ==
    \E i \in DOMAIN log : log[i].ev = "error" /\ log[i].type \in ReadsOf(cmd)

\* C7: once a read of a run has failed, the run has ended with the error
\* and energy/save_prefs has not been sent, nor will it be.
C7_ReadFailureStopsRun ==
    ReadFailed => (status = "raised" /\ SaveSends = {})

\* C7 witness: get_states failed in a run of energy --topology after the
\* registries had been read.
C7_Witness ==
    /\ cmd = "energy_topology" /\ status = "raised"
    /\ \E i \in DOMAIN log : log[i].ev = "error" /\ log[i].type = "get_states"
    /\ \E i \in DOMAIN log : log[i].ev = "result" /\ log[i].type = "config/area_registry/list"

\* C8: with --dry-run no run of energy, energy --topology or energy-audit
\* (with or without --prune) sends energy/save_prefs.
C8_DryRunNeverSaves ==
    (cmd \in Commands /\ dry_run) => SaveSends = {}

\* C8 witness: energy-audit --prune --dry-run found stale references and
\* returned at the dry-run gate.
C8_Witness ==
    /\ cmd = "energy_audit" /\ prune /\ dry_run /\ ~noStale
    /\ status = "returned"
    /\ \A t \in ReadsOf(cmd) : \E i \in DOMAIN log : log[i].ev = "result" /\ log[i].type = t

-----------------------------------------------------------------------------
(* The topology decision engine: data and lookups *)

\* Identifiers, serials, node-ids, entity-ids, unique-ids and vendor names
\* are strings given as the sequence of their words (the parts that "_" or
\* " " separates); <<>> is the empty string, and None where one is optional.
\* An optional object is a sequence of no or one object.
NoId == <<>>

VENDOR_PLATFORM_MAP ==
    [tesla |-> {"powerwall", "tesla_fleet"},
     enphase |-> {"enphase_envoy"},
     solaredge |-> {"solaredge"},
     generac |-> {"generac"},
     sonnen |-> {"sonnen"}]

\* str.lower() of one word
Lower(word) ==
    CASE word = "Tesla" -> "tesla"
      [] word = "Enphase" -> "enphase"
      [] word = "Energy" -> "energy"
      [] word = "SolarEdge" -> "solaredge"
      [] OTHER -> word

\* `needle in haystack`: the needle's words appear side by side
Contains(haystack, needle) ==
    \E i \in 0..(Len(haystack) - Len(needle)) :
        SubSeq(haystack, i + 1, i + Len(needle)) = needle

\* s.endswith(suffix)
EndsWith(s, suffix) ==
    /\ Len(s) >= Len(suffix)
    /\ SubSeq(s, Len(s) - Len(suffix) + 1, Len(s)) = suffix

\* next(iter(seq), None); the first hit of a search loop that returns
First(seq) == IF seq = <<>> THEN <<>> ELSE << seq[1] >>

\* _find_platform_for_vendor(vendor, integrations)
find_platform_for_vendor(vendor, integs) ==
    IF vendor = <<>> THEN <<>>
    ELSE LET vendor_lower == [i \in DOMAIN vendor |-> Lower(vendor[i])]
             candidate_platforms ==
                 UNION {VENDOR_PLATFORM_MAP[k] :
                          k \in {m \in DOMAIN VENDOR_PLATFORM_MAP : Contains(vendor_lower, <<m>>)}}
             Matches(integration) == integration.platform \in candidate_platforms
         IN  First(SelectSeq(integs, Matches))

\* _find_circuit_entity(circuit, property_suffix): the first enabled entity
\* of the device whose unique_id ends with the suffix
find_circuit_entity(circuit, property_suffix) ==
    LET Hit(entity) == /\ ~Truthy(entity.disabled_by)
                       /\ EndsWith(entity.unique_id, property_suffix)
    IN  First(SelectSeq(circuit.entities, Hit))

\* _find_upstream_energy(tree, suffix) asking the site_metering device
\* before the panel's upstream lugs
find_upstream_energy_site_first(tree, suffix) ==
    LET upstream_entity == find_circuit_entity(tree.panel, <<"lugs-upstream">> \o suffix)
        fallback == IF tree.site_metering # <<>>
                    THEN find_circuit_entity(tree.site_metering[1], suffix) ELSE <<>>
    IN  IF fallback # <<>> THEN fallback
        ELSE IF upstream_entity # <<>> THEN upstream_entity
        ELSE find_circuit_entity(tree.panel, suffix)

\* _find_upstream_energy(tree, suffix): panel lugs-upstream, else the
\* site_metering device, else the panel with the bare suffix
find_upstream_energy(tree, suffix) ==
    LET upstream_entity == find_circuit_entity(tree.panel, <<"lugs-upstream">> \o suffix)
        fallback == IF tree.site_metering # <<>>
                    THEN find_circuit_entity(tree.site_metering[1], suffix) ELSE <<>>
    IN  IF upstream_entity # <<>> THEN upstream_entity
        ELSE IF fallback # <<>> THEN fallback
        ELSE find_circuit_entity(tree.panel, suffix)

\* _find_entity_on_integration(integration, keyword)
find_entity_on_integration(integration, keyword) ==
    LET Hit(entity) == Contains(entity.entity_id, keyword)
    IN  First(SelectSeq(integration.energy_entities, Hit))

\* SpanDeviceTree.serial: the panel's span_ebus identifier
serial(tree) ==
    LET Ours(ident) == ident[1] = "span_ebus"
        hits == SelectSeq(tree.panel.identifiers, Ours)
    IN  IF hits = <<>> THEN NoId ELSE hits[1][2]

\* _circuit_node_id(circuit): what follows the first "_" of the span_ebus
\* identifier "{serial}_{node_id}"
circuit_node_id(circuit) ==
    LET Ours(ident) == ident[1] = "span_ebus" /\ Len(ident[2]) >= 2
        hits == SelectSeq(circuit.identifiers, Ours)
    IN  IF hits = <<>> THEN NoId ELSE Tail(hits[1][2])

\* [c for tree in trees for c in tree.circuits]
RECURSIVE AllCircuits(_)
AllCircuits(ts) ==
    IF ts = <<>> THEN <<>> ELSE Head(ts).circuits \o AllCircuits(Tail(ts))

\* _find_circuit_by_node_id(trees, target_node_id): the first circuit, in
\* tree order, with that node-id
find_circuit_by_node_id(ts, target_node_id) ==
    LET Hit(circuit) == circuit_node_id(circuit) = target_node_id
    IN  First(SelectSeq(AllCircuits(ts), Hit))

\* {t.serial: t for t in topologies}.get(s): the last topology of that serial
topo_by_serial(topos, s) ==
    LET hits == {i \in DOMAIN topos : topos[i].serial = s}
    IN  IF hits = {} THEN <<>> ELSE << topos[Max(hits)] >>

CircuitRole(circuit, role, skip_return_energy, skip_consumption, reason) ==
    [circuit |-> circuit, role |-> role, skip_return_energy |-> skip_return_energy,
     skip_consumption |-> skip_consumption, reason |-> reason]

\* The body of classify_circuits' inner loop: the role of one circuit of a
\* panel whose topology is ptopo (optional; `topo` in the source)
classify_circuit(circuit, ptopo) ==
    LET node_id == circuit_node_id(circuit)
    IN  IF /\ ptopo # <<>> /\ ptopo[1].solar_feed_circuit_id # NoId
           /\ node_id # NoId /\ node_id = ptopo[1].solar_feed_circuit_id
        THEN IF ptopo[1].solar_position = "IN_PANEL"
             THEN CircuitRole(circuit, "pv_feed", FALSE, FALSE, "PV feed circuit (IN_PANEL)")
             ELSE CircuitRole(circuit, "pv_feed", TRUE, FALSE, "PV feed circuit")
        ELSE IF /\ ptopo # <<>> /\ ptopo[1].battery_feed_circuit_id # NoId
                /\ node_id # NoId /\ node_id = ptopo[1].battery_feed_circuit_id
        THEN IF ptopo[1].battery_position = "IN_PANEL"
             THEN CircuitRole(circuit, "bess_feed", FALSE, TRUE, "BESS feed circuit (IN_PANEL)")
             ELSE CircuitRole(circuit, "bess_feed", TRUE, FALSE, "BESS feed circuit")
        ELSE CircuitRole(circuit, "load", TRUE, FALSE, "Pure load circuit")

\* classify_circuits(trees, topologies)
RECURSIVE classify_circuits(_, _)
classify_circuits(ts, topos) ==
    IF ts = <<>> THEN <<>>
    ELSE LET tree == Head(ts)
             ptopo == topo_by_serial(topos, serial(tree))
             roles == IF serial(tree) = NoId THEN <<>>
                      ELSE [i \in DOMAIN tree.circuits |-> classify_circuit(tree.circuits[i], ptopo)]
         IN  roles \o classify_circuits(Tail(ts), topos)

-----------------------------------------------------------------------------
(* The topology decision engine: build_energy_topology *)

EnergyRole(role, entity_id, platform, preferred, reason, parent_entity_id, rate_entity_id) ==
    [role |-> role, entity_id |-> entity_id, platform |-> platform,
     preferred |-> preferred, reason |-> reason,
     parent_entity_id |-> parent_entity_id, rate_entity_id |-> rate_entity_id]

\* x.entity_id if x else None, for an optional entity
IdOf(entity) == IF entity = <<>> THEN NoId ELSE entity[1].entity_id

\* The concatenation of a sequence of sequences.
RECURSIVE Concat(_)
Concat(ss) == IF ss = <<>> THEN <<>> ELSE Head(ss) \o Concat(Tail(ss))

\* bool(topologies) and all(t.battery_position == "UPSTREAM" for t in topologies)
all_bess_upstream(topos) ==
    /\ topos # <<>>
    /\ \A i \in DOMAIN topos : topos[i].battery_position = "UPSTREAM"

\* next((t.battery_vendor for t in topologies if t.battery_vendor), None)
bess_vendor(topos) ==
    LET Has(t) == t.battery_vendor # <<>>
        hits == SelectSeq(topos, Has)
    IN  IF hits = <<>> THEN <<>> ELSE hits[1].battery_vendor

\* next((t.solar_vendor for t in topologies if t.solar_vendor), None)
pv_vendor(topos) ==
    LET Has(t) == t.solar_vendor # <<>>
        hits == SelectSeq(topos, Has)
    IN  IF hits = <<>> THEN <<>> ELSE hits[1].solar_vendor

\* for tree in trees: the panel's upstream imported / exported energy as
\* grid_import / grid_export of the span_ebus platform
SpanGrid(ts, preferred, reason) ==
    LET OfTree(tree) ==
            LET imported == find_upstream_energy(tree, <<"imported-energy">>)
                exported == find_upstream_energy(tree, <<"exported-energy">>)
            IN  (IF imported # <<>>
                 THEN << EnergyRole("grid_import", imported[1].entity_id, "span_ebus",
                                    preferred, reason, NoId, NoId) >>
                 ELSE <<>>)
                \o
                (IF exported # <<>>
                 THEN << EnergyRole("grid_export", exported[1].entity_id, "span_ebus",
                                    preferred, reason, NoId, NoId) >>
                 ELSE <<>>)
    IN  Concat([i \in DOMAIN ts |-> OfTree(ts[i])])

\* The site-level import / export entities of the battery integration as
\* the preferred grid source.
IntegrationGrid(bess_integration) ==
    LET ents == bess_integration.energy_entities
        grid_import == find_entity_on_integration(bess_integration, <<"import">>)
        grid_export == find_entity_on_integration(bess_integration, <<"export">>)
        IsSiteImport(e) == Contains(e.entity_id, <<"site", "import">>)
        IsSiteExport(e) == Contains(e.entity_id, <<"site", "export">>)
        site_import == IF SelectSeq(ents, IsSiteImport) # <<>>
                       THEN SelectSeq(ents, IsSiteImport)[1] ELSE grid_import[1]
        site_export == IF SelectSeq(ents, IsSiteExport) # <<>>
                       THEN SelectSeq(ents, IsSiteExport)[1] ELSE grid_export[1]
        reason == "BESS UPSTREAM on all panels"
    IN  (IF grid_import # <<>>
         THEN << EnergyRole("grid_import", site_import.entity_id, bess_integration.platform,
                            TRUE, reason, NoId, NoId) >>
         ELSE <<>>)
        \o
        (IF grid_export # <<>>
         THEN << EnergyRole("grid_export", site_export.entity_id, bess_integration.platform,
                            TRUE, reason, NoId, NoId) >>
         ELSE <<>>)

\* --- Grid source --- taking the battery integration as soon as one panel
\* reports the battery upstream
GridSourceAnyUpstream(ts, topos, bess_integration) ==
    IF (\E i \in DOMAIN topos : topos[i].battery_position = "UPSTREAM") /\ bess_integration # <<>>
    THEN [assignments |-> IntegrationGrid(bess_integration[1])
                            \o SpanGrid(ts, FALSE, "BESS UPSTREAM - SPAN upstream is post-battery"),
          warnings |-> << "BESS is UPSTREAM of all panels" >>]
    ELSE [assignments |-> SpanGrid(ts, TRUE, "SPAN upstream metering"),
          warnings |-> <<>>]

\* --- Grid source ---: [assignments, warnings]
GridSource(ts, topos, bess_integration) ==
    IF all_bess_upstream(topos) /\ bess_integration # <<>>
    THEN [assignments |-> IntegrationGrid(bess_integration[1])
                            \o SpanGrid(ts, FALSE, "BESS UPSTREAM - SPAN upstream is post-battery"),
          warnings |-> << "BESS is UPSTREAM of all panels" >>]
    ELSE [assignments |-> SpanGrid(ts, TRUE, "SPAN upstream metering"),
          warnings |-> <<>>]

\* The battery feed circuit's energy as preferred discharge / charge.
CircuitBattery(circuit) ==
    LET discharge == find_circuit_entity(circuit, <<"imported-energy">>)
        charge == find_circuit_entity(circuit, <<"exported-energy">>)
        batt_rate == IdOf(find_circuit_entity(circuit, <<"active-power">>))
    IN  (IF discharge # <<>>
         THEN << EnergyRole("battery_discharge", discharge[1].entity_id, "span_ebus", TRUE,
                            "BESS IN_PANEL - discharge", NoId, batt_rate) >>
         ELSE <<>>)
        \o
        (IF charge # <<>>
         THEN << EnergyRole("battery_charge", charge[1].entity_id, "span_ebus", TRUE,
                            "BESS IN_PANEL - charge", NoId, batt_rate) >>
         ELSE <<>>)

\* The battery entities of the dedicated integration, non-preferred.
IntegrationBatterySkipped(bess_integration) ==
    LET ents == bess_integration.energy_entities
        OfEntity(entity) ==
            IF Contains(entity.entity_id, <<"battery">>)
            THEN << EnergyRole(IF Contains(entity.entity_id, <<"export">>)
                               THEN "battery_discharge" ELSE "battery_charge",
                               entity.entity_id, bess_integration.platform, FALSE,
                               "BESS IN_PANEL - SPAN circuit is preferred", NoId, NoId) >>
            ELSE <<>>
    IN  Concat([i \in DOMAIN ents |-> OfEntity(ents[i])])

\* The battery entities of the dedicated integration, preferred.
IntegrationBattery(bess_integration) ==
    LET ents == bess_integration.energy_entities
        OfEntity(entity) ==
            IF ~Contains(entity.entity_id, <<"battery">>) THEN <<>>
            ELSE IF Contains(entity.entity_id, <<"export">>)
            THEN << EnergyRole("battery_discharge", entity.entity_id,
                               bess_integration.platform, TRUE, "BESS UPSTREAM", NoId, NoId) >>
            ELSE IF Contains(entity.entity_id, <<"import">>)
            THEN << EnergyRole("battery_charge", entity.entity_id,
                               bess_integration.platform, TRUE, "BESS UPSTREAM", NoId, NoId) >>
            ELSE <<>>
    IN  Concat([i \in DOMAIN ents |-> OfEntity(ents[i])])

\* --- Battery source ---: the loop over topologies from index i on; the
\* UPSTREAM branch breaks out of it, the IN_PANEL branch does not.
RECURSIVE BatterySource(_, _, _, _)
BatterySource(ts, topos, bess_integration, i) ==
    IF i > Len(topos) THEN <<>>
    ELSE LET ptopo == topos[i]
         IN  IF ptopo.battery_position = "IN_PANEL" /\ ptopo.battery_feed_circuit_id # NoId
             THEN LET circuit == find_circuit_by_node_id(ts, ptopo.battery_feed_circuit_id)
                  IN  (IF circuit # <<>> THEN CircuitBattery(circuit[1]) ELSE <<>>)
                      \o (IF bess_integration # <<>>
                          THEN IntegrationBatterySkipped(bess_integration[1]) ELSE <<>>)
                      \o BatterySource(ts, topos, bess_integration, i + 1)
             ELSE IF ptopo.battery_position = "UPSTREAM" /\ bess_integration # <<>>
             THEN IntegrationBattery(bess_integration[1])
             ELSE BatterySource(ts, topos, bess_integration, i + 1)

\* Every energy entity of the PV integration as a solar source.
IntegrationSolar(pv_integration, preferred, reason) ==
    LET ents == pv_integration.energy_entities
    IN  [i \in DOMAIN ents |->
            EnergyRole("solar", ents[i].entity_id, pv_integration.platform,
                       preferred, reason, NoId, NoId)]

\* The imported energy of a solar feed circuit or solar device.
DeviceSolar(device, reason) ==
    LET solar_entity == find_circuit_entity(device, <<"imported-energy">>)
        solar_power == find_circuit_entity(device, <<"active-power">>)
    IN  IF solar_entity # <<>>
        THEN << EnergyRole("solar", solar_entity[1].entity_id, "span_ebus", TRUE,
                           reason, NoId, IdOf(solar_power)) >>
        ELSE <<>>

\* --- Solar source ---: the loop over topologies from index i on; both
\* branches break out of it.
RECURSIVE SolarSource(_, _, _, _)
SolarSource(ts, topos, pv_integration, i) ==
    IF i > Len(topos) THEN <<>>
    ELSE LET ptopo == topos[i]
         IN  IF ptopo.solar_position = "IN_PANEL" /\ ptopo.solar_feed_circuit_id # NoId
             THEN LET circuit == find_circuit_by_node_id(ts, ptopo.solar_feed_circuit_id)
                  IN  (IF circuit # <<>> THEN DeviceSolar(circuit[1], "PV IN_PANEL") ELSE <<>>)
                      \o (IF pv_integration # <<>>
                          THEN IntegrationSolar(pv_integration[1], FALSE,
                                                "PV IN_PANEL - SPAN circuit is preferred")
                          ELSE <<>>)
             ELSE IF ptopo.solar_position = "UPSTREAM" /\ pv_integration # <<>>
             THEN IntegrationSolar(pv_integration[1], TRUE, "PV UPSTREAM")
             ELSE SolarSource(ts, topos, pv_integration, i + 1)

\* The SPAN solar device of the first tree that has one with an
\* imported-energy entity, when no preferred solar has been assigned.
SolarFallback(ts, soFar) ==
    LET IsPreferredSolar(a) == a.role = "solar" /\ a.preferred
        Has(tree) == /\ tree.solar # <<>>
                     /\ find_circuit_entity(tree.solar[1], <<"imported-energy">>) # <<>>
        hits == SelectSeq(ts, Has)
    IN  IF SelectSeq(soFar, IsPreferredSolar) # <<>> \/ hits = <<>> THEN <<>>
        ELSE DeviceSolar(hits[1].solar[1], "SPAN solar device")

\* device_id_to_serial.get(device_id): the serial of the last tree whose
\* panel has that id, None when there is none
device_id_to_serial(ts, device_id) ==
    LET hits == {i \in DOMAIN ts : serial(ts[i]) # NoId /\ ts[i].panel.id = device_id}
    IN  IF hits = {} THEN NoId ELSE serial(ts[Max(hits)])

\* device_id_to_serial.get(tree.panel.via_device_id or "")
parent_serial(ts, tree) ==
    device_id_to_serial(ts, IF Truthy(tree.panel.via_device_id)
                            THEN tree.panel.via_device_id ELSE "")

\* serial_to_tree[s]: the last tree with that serial
serial_to_tree(ts, s) == ts[Max({i \in DOMAIN ts : serial(ts[i]) = s})]

\* The BFS of _topo_sort_trees: queue holds serials, result holds trees.
RECURSIVE TopoBFS(_, _, _)
TopoBFS(ts, queue, sorted) ==
    IF queue = <<>> THEN sorted
    ELSE LET s == Head(queue)
             IsChild(tree) == serial(tree) # NoId /\ parent_serial(ts, tree) = s
             kids == SelectSeq(ts, IsChild)
         IN  TopoBFS(ts, Tail(queue) \o [i \in DOMAIN kids |-> serial(kids[i])],
                     Append(sorted, serial_to_tree(ts, s)))

\* A plausible slip: the trees are processed in the order they were passed.
topo_sort_trees_unsorted(ts) ==
    LET HasSerial(tree) == serial(tree) # NoId IN SelectSeq(ts, HasSerial)

\* _topo_sort_trees(trees, device_id_to_serial): parents before children
topo_sort_trees(ts) ==
    LET IsRoot(tree) == serial(tree) # NoId /\ parent_serial(ts, tree) = NoId
        roots == SelectSeq(ts, IsRoot)
        reached == TopoBFS(ts, [i \in DOMAIN roots |-> serial(roots[i])], <<>>)
        seen == {serial(reached[i]) : i \in DOMAIN reached}
        NotReached(tree) == serial(tree) # NoId /\ serial(tree) \notin seen
    IN  reached \o SelectSeq(ts, NotReached)

\* A plausible slip: the parent is looked up in a map of every panel's
\* upstream entity, built before the loop, so the order of processing no
\* longer keeps a panel from naming a later one (or itself) as parent.
RECURSIVE PanelConsumptionEager(_, _, _, _, _)
PanelConsumptionEager(ts, sorted_trees, preferred_grid_eids, st, i) ==
    IF i > Len(sorted_trees) THEN st
    ELSE LET tree == sorted_trees[i]
             upstream == find_upstream_energy(tree, <<"imported-energy">>)
             IsVia(t) == serial(t) # NoId /\ t.panel.id = tree.panel.via_device_id
             vias == SelectSeq(ts, IsVia)
             parent_eid == IF vias = <<>> THEN NoId
                           ELSE IdOf(find_upstream_energy(vias[1], <<"imported-energy">>))
             upstream_power == find_upstream_energy(tree, <<"active-power">>)
         IN  IF /\ serial(tree) # NoId
                /\ upstream # <<>>
                /\ upstream[1].entity_id \notin preferred_grid_eids
             THEN PanelConsumptionEager(ts, sorted_trees, preferred_grid_eids,
                     [out |-> Append(st.out,
                                 EnergyRole("device_consumption", upstream[1].entity_id,
                                            "span_ebus", TRUE, "Panel total energy",
                                            parent_eid, IdOf(upstream_power))),
                      parents |-> SetKey(st.parents, serial(tree), upstream[1].entity_id)],
                     i + 1)
             ELSE PanelConsumptionEager(ts, sorted_trees, preferred_grid_eids, st, i + 1)

\* The loop over sorted_trees from index i on: a device_consumption entry
\* for each panel whose upstream energy is not a preferred grid source.
\* st = [out, parents]: the assignments made and panel_parent_eids.
RECURSIVE PanelConsumption(_, _, _, _, _)
PanelConsumption(ts, sorted_trees, preferred_grid_eids, st, i) ==
    IF i > Len(sorted_trees) THEN st
    ELSE LET tree == sorted_trees[i]
             upstream == find_upstream_energy(tree, <<"imported-energy">>)
             pser == IF Truthy(tree.panel.via_device_id)
                     THEN device_id_to_serial(ts, tree.panel.via_device_id) ELSE NoId
             parent_eid == IF pser # NoId /\ pser \in DOMAIN st.parents
                           THEN st.parents[pser] ELSE NoId
             upstream_power == find_upstream_energy(tree, <<"active-power">>)
         IN  IF /\ serial(tree) # NoId
                /\ upstream # <<>>
                /\ upstream[1].entity_id \notin preferred_grid_eids
             THEN PanelConsumption(ts, sorted_trees, preferred_grid_eids,
                     [out |-> Append(st.out,
                                 EnergyRole("device_consumption", upstream[1].entity_id,
                                            "span_ebus", TRUE, "Panel total energy",
                                            parent_eid, IdOf(upstream_power))),
                      parents |-> SetKey(st.parents, serial(tree), upstream[1].entity_id)],
                     i + 1)
             ELSE PanelConsumption(ts, sorted_trees, preferred_grid_eids, st, i + 1)

\* circuit_role_map.get(circuit.id): the last role given for that circuit
circuit_role_map(roles, circuit_id) ==
    LET hits == {i \in DOMAIN roles : roles[i].circuit.id = circuit_id}
    IN  IF hits = {} THEN <<>> ELSE << roles[Max(hits)] >>

\* The loop over trees and their circuits: a device_consumption entry for
\* each circuit with an exported-energy entity, unless its role skips it.
CircuitConsumption(ts, roles, panel_parent_eids) ==
    LET OfCircuit(circuit, parent_eid) ==
            LET cr == circuit_role_map(roles, circuit.id)
                consumption == find_circuit_entity(circuit, <<"exported-energy">>)
                power == find_circuit_entity(circuit, <<"active-power">>)
            IN  IF consumption # <<>> /\ (cr = <<>> \/ ~cr[1].skip_consumption)
                THEN << EnergyRole("device_consumption", consumption[1].entity_id,
                                   "span_ebus", TRUE,
                                   IF cr # <<>> THEN cr[1].reason ELSE "Circuit consumption",
                                   parent_eid, IdOf(power)) >>
                ELSE <<>>
        OfTree(tree) ==
            LET parent_eid == IF serial(tree) # NoId /\ serial(tree) \in DOMAIN panel_parent_eids
                              THEN panel_parent_eids[serial(tree)] ELSE NoId
            IN  Concat([j \in DOMAIN tree.circuits |-> OfCircuit(tree.circuits[j], parent_eid)])
    IN  Concat([i \in DOMAIN ts |-> OfTree(ts[i])])

\* build_energy_topology(trees, topologies, integrations, circuit_roles):
\* [role_assignments, warnings] of the EnergyTopology it returns
build_energy_topology(ts, topos, integs, roles) ==
    LET bess_integration == find_platform_for_vendor(bess_vendor(topos), integs)
        pv_integration == find_platform_for_vendor(pv_vendor(topos), integs)
        grid == GridSource(ts, topos, bess_integration)
        a1 == grid.assignments
        a2 == a1 \o BatterySource(ts, topos, bess_integration, 1)
        a3 == a2 \o SolarSource(ts, topos, pv_integration, 1)
        a4 == a3 \o SolarFallback(ts, a3)
        preferred_grid_eids ==
            {a4[i].entity_id : i \in {j \in DOMAIN a4 : a4[j].role = "grid_import" /\ a4[j].preferred}}
        panels == PanelConsumption(ts, topo_sort_trees(ts), preferred_grid_eids,
                                   [out |-> <<>>, parents |-> <<>>], 1)
        a5 == a4 \o panels.out
        a6 == a5 \o CircuitConsumption(ts, roles, panels.parents)
    IN  [role_assignments |-> a6, warnings |-> grid.warnings]

-----------------------------------------------------------------------------
(* Inputs of the decision engine *)

\* A panel has at most MaxCircuits circuits.
MaxCircuits == 2

\* The panels of an installation: device id, serial and the node-ids of
\* its circuits.
PanelIds == << "d1", "d2", "d3", "d4" >>

Serials == << <<"s1">>, <<"s2">>, <<"s3">>, <<"s4">> >>

NodeIds == << <<"a1", "a2", "a3">>, <<"b1", "b2", "b3">>,
             <<"c1", "c2", "c3">>, <<"f1", "f2", "f3">> >>

Entity(entity_id, unique_id) ==
    [entity_id |-> entity_id, unique_id |-> unique_id, disabled_by |-> None]

\* An entity of the span_ebus integration: unique_id "{serial}_{node}_{property}"
SpanEntity(s, node, property) ==
    Entity(<<"span">> \o s \o node \o <<property>>, s \o node \o <<property>>)

\* The energy and power entities of a metered node.
EnergyEntities(s, node) ==
    << SpanEntity(s, node, "imported-energy"),
       SpanEntity(s, node, "exported-energy"),
       SpanEntity(s, node, "active-power") >>

Device(id, via_device_id, ident, entities) ==
    [id |-> id, via_device_id |-> via_device_id,
     identifiers |-> << <<"span_ebus", ident>> >>, entities |-> entities]

\* Where a panel's upstream energy is registered.
Meters == {"lugs", "site", "generic", "none"}

\* The tree of panel p: its upstream metering, whether it has a solar
\* sub-device, its first n circuits, the panel it hangs off.
Tree(p, meter, hasSolar, n, via) ==
    LET s == Serials[p]
    IN  [panel |-> Device(PanelIds[p], via, s,
                          IF meter = "lugs" THEN EnergyEntities(s, <<"lugs-upstream">>)
                          ELSE IF meter = "generic" THEN EnergyEntities(s, <<>>)
                          ELSE <<>>),
         circuits |-> [j \in 1..n |->
                          Device(<<PanelIds[p], j>>, PanelIds[p], s \o <<NodeIds[p][j]>>,
                                 EnergyEntities(s, <<NodeIds[p][j]>>))],
         site_metering |-> IF meter = "site"
                           THEN << Device(<<PanelIds[p], "site">>, PanelIds[p],
                                          s \o <<"site-metering">>,
                                          EnergyEntities(s, <<"site-metering">>)) >>
                           ELSE <<>>,
         solar |-> IF hasSolar
                   THEN << Device(<<PanelIds[p], "solar">>, PanelIds[p], s \o <<"solar">>,
                                  EnergyEntities(s, <<"solar">>)) >>
                   ELSE <<>>]

\* What a panel's battery entities report: nothing, a Tesla battery
\* upstream, a Tesla battery on the panel's first circuit.
BatteryConfigs(p) ==
    { [battery_position |-> None, battery_vendor |-> <<>>, battery_feed_circuit_id |-> NoId],
      [battery_position |-> "UPSTREAM", battery_vendor |-> <<"Tesla">>,
       battery_feed_circuit_id |-> NoId],
      [battery_position |-> "IN_PANEL", battery_vendor |-> <<"Tesla">>,
       battery_feed_circuit_id |-> <<NodeIds[p][1]>>] }

\* What a panel's solar entities report.
SolarConfigs(p) ==
    { [solar_position |-> None, solar_vendor |-> <<>>, solar_feed_circuit_id |-> NoId],
      [solar_position |-> "UPSTREAM", solar_vendor |-> <<"Tesla">>,
       solar_feed_circuit_id |-> NoId],
      [solar_position |-> "UPSTREAM", solar_vendor |-> <<"Enphase", "Energy">>,
       solar_feed_circuit_id |-> NoId],
      [solar_position |-> "IN_PANEL", solar_vendor |-> <<"Enphase", "Energy">>,
       solar_feed_circuit_id |-> <<NodeIds[p][1]>>],
      [solar_position |-> "IN_PANEL", solar_vendor |-> <<>>,
       solar_feed_circuit_id |-> <<NodeIds[p][2]>>] }

\* The SpanTopology extract_span_topology makes for a tree from what its
\* battery and solar entities report.
SpanTopology(tree, battery, solar) ==
    [serial |-> serial(tree),
     is_lead_panel |-> tree.panel.via_device_id = None,
     battery_position |-> battery.battery_position,
     battery_vendor |-> battery.battery_vendor,
     battery_feed_circuit_id |-> battery.battery_feed_circuit_id,
     solar_position |-> solar.solar_position,
     solar_vendor |-> solar.solar_vendor,
     solar_feed_circuit_id |-> solar.solar_feed_circuit_id]

\* An energy entity of another integration: entity_id "sensor.<words>"
Sensor(words) == Entity(words, words)

\* The energy entities a Powerwall integration may register, in registry order.
PowerwallEntities ==
    { << Sensor(<<"pw", "battery", "export">>), Sensor(<<"pw", "battery", "import">>),
         Sensor(<<"pw", "site", "export">>), Sensor(<<"pw", "site", "import">>),
         Sensor(<<"pw", "solar", "export">>) >>,
      << Sensor(<<"pw", "battery", "import">>), Sensor(<<"pw", "battery", "export">>) >>,
      << Sensor(<<"pw", "site", "import">>), Sensor(<<"pw", "site", "export">>) >> }

EnvoyEntities == { << Sensor(<<"envoy", "lifetime", "production">>) >> }

EnergyIntegration(platform, energy_entities) ==
    [platform |-> platform, energy_entities |-> energy_entities]

\* What discover_energy_integrations may return: at most one integration
\* per platform, in platform order.
IntegrationLists ==
    LET envoy == {<<>>} \cup {<< EnergyIntegration("enphase_envoy", es) >> : es \in EnvoyEntities}
        pw == {<<>>} \cup {<< EnergyIntegration("powerwall", es) >> : es \in PowerwallEntities}
    IN  {e \o w : e \in envoy, w \in pw}

\* One panel, or a lead panel and a second one that hangs off it or not
\* and reports what the lead reports or nothing.
InitEngine ==
    /\ PrefsIdle /\ CliIdle /\ RegistryIdle
    /\ \E meter \in Meters : \E hasSolar \in BOOLEAN : \E n \in 0..MaxCircuits :
       \E battery \in BatteryConfigs(1) : \E solar \in SolarConfigs(1) :
         LET t1 == Tree(1, meter, hasSolar, n, None)
             p1 == SpanTopology(t1, battery, solar)
         IN  \/ trees = << t1 >> /\ topologies = << p1 >>
             \/ \E meter2 \in {"lugs", "none"} : \E n2 \in 0..1 : \E via \in {None, PanelIds[1]} :
                \E same \in BOOLEAN :
                  LET t2 == Tree(2, meter2, FALSE, n2, via)
                      p2 == IF same THEN [p1 EXCEPT !.serial = serial(t2),
                                                    !.is_lead_panel = (via = None)]
                            ELSE SpanTopology(t2, CHOOSE b \in BatteryConfigs(2) : b.battery_position = None,
                                              CHOOSE c \in SolarConfigs(2) : c.solar_position = None)
                  IN  trees = << t1, t2 >> /\ topologies = << p1, p2 >>
    /\ integrations \in IntegrationLists
    /\ circuit_roles \in {classify_circuits(trees, topologies), <<>>}
    /\ assignments = <<>> /\ warnings = <<>> /\ built = FALSE

\* topo = build_energy_topology(trees, topologies, integrations, circuit_roles)
Build ==
    /\ ~built /\ trees # <<>>
    /\ LET r == build_energy_topology(trees, topologies, integrations, circuit_roles)
       IN  assignments' = r.role_assignments /\ warnings' = r.warnings
    /\ built' = TRUE
    /\ UNCHANGED <<trees, topologies, integrations, circuit_roles, prefsVars, cliVars, registryVars>>

NextEngine == Build

SpecEngine == InitEngine /\ [][NextEngine]_vars

\* Daisy chains: installations of MaxPanels panels (a panel whose via names
\* no panel stands alone, so shorter chains and single panels are among them).
MaxPanels == 3

\* The orders in which k trees can be passed.
Orders(k) == {o \in [1..k -> 1..k] : \A i, j \in 1..k : o[i] = o[j] => i = j}

\* A battery upstream of every panel, with its integration, or no battery.
SiteConfigs == {"bess_upstream", "plain"}

\* The installation's panels hang off one another in any way the registry
\* can say (a panel's via names no panel, another panel or, wrongly, itself
\* or a descendant); each has upstream lugs or not, and one circuit or none.
\* The trees are passed in any order, the topologies in the same order.
InitChain ==
    /\ PrefsIdle /\ CliIdle /\ RegistryIdle
    /\ \E k \in {MaxPanels} : \E site \in SiteConfigs : \E n \in 0..1 :
       \E via \in [1..k -> {None} \cup {PanelIds[p] : p \in 1..k}] :
       \E meter \in [1..k -> {"lugs", "none"}] : \E o \in Orders(k) :
         LET battery == IF site = "bess_upstream"
                        THEN [battery_position |-> "UPSTREAM", battery_vendor |-> <<"Tesla">>,
                              battery_feed_circuit_id |-> NoId]
                        ELSE [battery_position |-> None, battery_vendor |-> <<>>,
                              battery_feed_circuit_id |-> NoId]
             solar == [solar_position |-> None, solar_vendor |-> <<>>,
                       solar_feed_circuit_id |-> NoId]
             ts == [i \in 1..k |-> Tree(o[i], meter[o[i]], FALSE, n, via[o[i]])]
         IN  /\ trees = ts
             /\ topologies = [i \in 1..k |-> SpanTopology(ts[i], battery, solar)]
             /\ integrations =
                  IF site = "bess_upstream"
                  THEN << EnergyIntegration("powerwall",
                             << Sensor(<<"pw", "site", "import">>),
                                Sensor(<<"pw", "site", "export">>) >>) >>
                  ELSE <<>>
    /\ circuit_roles = classify_circuits(trees, topologies)
    /\ assignments = <<>> /\ warnings = <<>> /\ built = FALSE

SpecChain == InitChain /\ [][NextEngine]_vars

-----------------------------------------------------------------------------
(* The upstream entity lookups *)

\* A device registers at most MaxEntities of the entities drawn for it.
MaxEntities == 2

\* The sequences of at most n distinct elements of S.
SeqsNoRepeat(S, n) ==
    UNION { {s \in [1..k -> S] : \A i, j \in 1..k : s[i] = s[j] => i = j} : k \in 0..n }

\* _find_entity_by_property(device, property_suffix)
find_entity_by_property(device, property_suffix) ==
    LET Hit(entity) == /\ ~Truthy(entity.disabled_by)
                       /\ EndsWith(entity.unique_id, property_suffix)
    IN  First(SelectSeq(device.entities, Hit))

\* build_energy_config's grid lookup for one property: panel lugs-upstream,
\* else site_metering, else the panel with the bare property
grid_lookup(tree, property) ==
    LET lugs == find_entity_by_property(tree.panel, <<"lugs-upstream", property>>)
        site == IF lugs = <<>> /\ tree.site_metering # <<>>
                THEN find_entity_by_property(tree.site_metering[1], <<property>>)
                ELSE lugs
    IN  IF site = <<>> THEN find_entity_by_property(tree.panel, <<property>>) ELSE site

\* The energy_sources build_energy_config appends for one tree.
TreeSources(tree) ==
    LET imported == grid_lookup(tree, "imported-energy")
        exported == grid_lookup(tree, "exported-energy")
        solar_energy == IF tree.solar # <<>>
                        THEN find_entity_by_property(tree.solar[1], <<"imported-energy">>)
                        ELSE <<>>
        discharge == IF tree.battery # <<>>
                     THEN find_entity_by_property(tree.battery[1], <<"imported-energy">>)
                     ELSE <<>>
        charge == IF tree.battery # <<>>
                  THEN find_entity_by_property(tree.battery[1], <<"exported-energy">>)
                  ELSE <<>>
    IN  (IF imported # <<>> \/ exported # <<>>
         THEN << [type |-> "grid",
                  flow_from |-> [i \in DOMAIN imported |->
                                    [stat_energy_from |-> imported[i].entity_id]],
                  flow_to |-> [i \in DOMAIN exported |->
                                  [stat_energy_to |-> exported[i].entity_id]]] >>
         ELSE <<>>)
        \o
        (IF solar_energy # <<>>
         THEN << [type |-> "solar", stat_energy_from |-> solar_energy[1].entity_id] >>
         ELSE <<>>)
        \o
        (IF discharge # <<>> \/ charge # <<>>
         THEN << [type |-> "battery"]
                 @@ (IF discharge # <<>>
                     THEN [stat_energy_from |-> discharge[1].entity_id] ELSE <<>>)
                 @@ (IF charge # <<>>
                     THEN [stat_energy_to |-> charge[1].entity_id] ELSE <<>>) >>
         ELSE <<>>)

\* The device_consumption build_energy_config appends for one tree.
TreeConsumption(tree) ==
    LET Energy(circuit) == find_entity_by_property(circuit, <<"exported-energy">>)
        Metered(circuit) == Energy(circuit) # <<>>
        metered == SelectSeq(tree.circuits, Metered)
    IN  [i \in DOMAIN metered |-> [stat_consumption |-> Energy(metered[i])[1].entity_id]]

\* build_energy_config(trees)
build_energy_config(ts) ==
    [energy_sources |-> Concat([i \in DOMAIN ts |-> TreeSources(ts[i])]),
     device_consumption |-> Concat([i \in DOMAIN ts |-> TreeConsumption(ts[i])])]

\* An entity a device registers, enabled or disabled by the user.
RegisteredEntity(s, node, property, disabled_by) ==
    [SpanEntity(s, node, property) EXCEPT !.disabled_by = disabled_by]

\* The upstream and downstream lug energy entities a panel may register.
LugEntities(s) ==
    {RegisteredEntity(s, <<node>>, property, d) :
        node \in {"lugs-upstream", "lugs-downstream"},
        property \in {"imported-energy", "exported-energy"},
        d \in {None, "user"}}

\* The energy entities a site-metering device may register.
SiteEntities(s) ==
    {RegisteredEntity(s, <<"site-metering">>, property, d) :
        property \in {"imported-energy", "exported-energy"}, d \in {None, "user"}}

\* One panel with some of its lug entities in some order, a site-metering
\* device or none, a battery device or none, and one circuit.
InitLookup ==
    /\ PrefsIdle /\ CliIdle
    /\ \E panel_entities \in SeqsNoRepeat(LugEntities(Serials[1]), MaxEntities) :
       \E site \in {<<>>} \cup { <<es>> : es \in SeqsNoRepeat(SiteEntities(Serials[1]), 1) } :
       \E hasBattery \in BOOLEAN :
         trees = << [panel |-> Device(PanelIds[1], None, Serials[1], panel_entities),
                     circuits |-> << Device(<<PanelIds[1], 1>>, PanelIds[1],
                                            Serials[1] \o <<NodeIds[1][1]>>,
                                            EnergyEntities(Serials[1], <<NodeIds[1][1]>>)) >>,
                     site_metering |-> [i \in DOMAIN site |->
                                          Device(<<PanelIds[1], "site">>, PanelIds[1],
                                                 Serials[1] \o <<"site-metering">>, site[i])],
                     solar |-> <<>>,
                     battery |-> IF hasBattery
                                 THEN << Device(<<PanelIds[1], "battery">>, PanelIds[1],
                                                Serials[1] \o <<"battery">>,
                                                EnergyEntities(Serials[1], <<"battery">>)) >>
                                 ELSE <<>>] >>
    /\ topologies = <<>> /\ integrations = <<>> /\ circuit_roles = <<>>
    /\ assignments = <<>> /\ warnings = <<>> /\ built = FALSE
    /\ reg_devices = <<>> /\ reg_entities = <<>> /\ stage = "lookup"
    /\ found = <<>> /\ proposed_config = <<>> /\ all_entity_ids = {}
    /\ states = <<>> /\ renames = <<>>

\* _find_upstream_energy(tree, suffix)
FindUpstream ==
    /\ stage = "lookup"
    /\ \E suffix \in {"imported-energy", "exported-energy"} :
         found' = [suffix |-> suffix, entity |-> find_upstream_energy(trees[1], <<suffix>>)]
    /\ stage' = "found"
    /\ UNCHANGED <<prefsVars, cliVars, engineVars, reg_devices, reg_entities,
                   proposed_config, all_entity_ids, states, renames>>

\* proposed = build_energy_config(trees)
BuildEnergyConfig ==
    /\ stage = "lookup"
    /\ proposed_config' = build_energy_config(trees)
    /\ stage' = "config"
    /\ UNCHANGED <<prefsVars, cliVars, engineVars, reg_devices, reg_entities,
                   found, all_entity_ids, states, renames>>

NextLookup == FindUpstream \/ BuildEnergyConfig

SpecLookup == InitLookup /\ [][NextLookup]_vars

-----------------------------------------------------------------------------
(* find_stale_references *)

\* The ids of a flow list that are set and not known, each under the
\* section "{stype} (grid import)" or "{stype} (grid export)".
StaleFlows(source, listKey, idKey, section, known) ==
    LET ids == FlowIds(source, listKey, idKey)
        Stale(stat) == Truthy(stat) /\ stat \notin known
        stale == SelectSeq(ids, Stale)
    IN  [i \in DOMAIN stale |-> <<section, stale[i]>>]

\* if (stat := source.get(k)) and stat not in all_entity_ids
StaleStat(d, k, section, known) ==
    IF Truthy(Get(d, k)) /\ Get(d, k) \notin known THEN << <<section, d[k]>> >> ELSE <<>>

\* What one energy source adds to the report, as (section, id) pairs in the
\* order they are appended.
StaleOfSource(source, known) ==
    LET stype == GetOr(source, "type", "unknown")
    IN  StaleFlows(source, "flow_from", "stat_energy_from", <<stype, "(grid import)">>, known)
        \o StaleFlows(source, "flow_to", "stat_energy_to", <<stype, "(grid export)">>, known)
        \o StaleStat(source, "stat_energy_from", <<stype>>, known)
        \o StaleStat(source, "stat_energy_to", <<stype>>, known)

\* find_stale_references(prefs, all_entity_ids) for the document prefs:
\* the dict of section name to the list of its stale ids
find_stale_references(prefs, known) ==
    LET sources == GetOr(prefs, "energy_sources", <<>>)
        devices == GetOr(prefs, "device_consumption", <<>>)
        pairs == Concat([i \in DOMAIN sources |-> StaleOfSource(sources[i], known)])
                 \o Concat([i \in DOMAIN devices |->
                              StaleStat(devices[i], "stat_consumption",
                                        <<"device_consumption">>, known)])
    IN  [section \in {pairs[i][1] : i \in DOMAIN pairs} |->
            LET Here(p) == p[1] = section
                here == SelectSeq(pairs, Here)
            IN  [i \in DOMAIN here |-> here[i][2]]]

\* Sources and entries whose id is empty or missing, and a source without
\* a type, beside those of the transformer's inputs.
AuditSourceValues ==
    SourceValues \cup { [type |-> "solar", stat_energy_from |-> ""],
                        [stat_energy_from |-> "e3"] }

AuditEntryValues == EntryValues \cup { [name |-> "p1"] }

\* The entity-ids the registry may know.
KnownCandidates == {"e1", "e2", "e3"}

\* The arguments of find_stale_references: a document and the ids of the
\* entity registry.
InitAudit ==
    /\ CliIdle /\ EngineIdle
    /\ mode = "audit"
    /\ \E i \in 0..MaxSize : \E j \in 0..(MaxSize - i) :
       \E ss \in [1..i -> AuditSourceValues] : \E cs \in [1..j -> AuditEntryValues] :
       \E bare \in MayBeBare(ss, cs) :
         heap = StoreDoc(<<>>, PrefsDoc(ss, cs, bare))
    /\ all_entity_ids \in SUBSET KnownCandidates
    /\ states = <<>> /\ renames = <<>>
    /\ staleIds = {}
    /\ curRoot = Len(heap)
    /\ heap0 = heap
    /\ propRoot = 0
    /\ topo = <<>>
    /\ outRoot = 0
    /\ out2Root = 0
    /\ reg_devices = <<>> /\ reg_entities = <<>> /\ stage = "audit"
    /\ found = <<>> /\ proposed_config = <<>>

\* stale = find_stale_references(prefs, all_entity_ids);
\* stale_ids = {eid for ids in stale.values() for eid in ids}
FindStale ==
    /\ mode = "audit"
    /\ LET stale == find_stale_references(DerefDoc(heap, curRoot), all_entity_ids)
       IN  /\ found' = stale
           /\ staleIds' = UNION {Range(stale[section]) : section \in DOMAIN stale}
    /\ mode' = "stale"
    /\ UNCHANGED <<heap, heap0, curRoot, propRoot, topo, outRoot, out2Root, cliVars,
                   engineVars, reg_devices, reg_entities, stage, proposed_config,
                   all_entity_ids, states, renames>>

\* find_stale_references(cleaned, all_entity_ids)
FindStaleAgain ==
    /\ stage = "audit" /\ mode = "stale" /\ outRoot # 0
    /\ found' = find_stale_references(DerefDoc(heap, outRoot), all_entity_ids)
    /\ stage' = "rechecked"
    /\ UNCHANGED <<prefsVars, cliVars, engineVars, reg_devices, reg_entities,
                   proposed_config, all_entity_ids, states, renames>>

NextAudit == FindStale \/ RemoveStale \/ FindStaleAgain

SpecAudit == InitAudit /\ [][NextAudit]_vars

-----------------------------------------------------------------------------
(* The device trees: _build_trees *)

DOMAIN_SPAN == "span_ebus"

MODEL_PANEL == "SPAN Panel"

MODEL_CIRCUIT == "Circuit"

MODEL_BATTERY == "Battery Storage"

MODEL_SOLAR == "Solar PV"

MODEL_EV_CHARGER == "EV Charger"

MODEL_SITE_METERING == "Site Metering"

\* _is_span_device(device)
is_span_device(device) ==
    \E i \in DOMAIN device.identifiers : device.identifiers[i][1] = DOMAIN_SPAN

\* entities_by_device.get(device.id, [])
entities_by_device(ents, id) ==
    LET Ours(entity) == Truthy(entity.device_id) /\ entity.device_id = id
    IN  SelectSeq(ents, Ours)

\* span_devices.values(): the span_ebus devices in registry order, each
\* with its entities attached
span_devices(devices, ents) ==
    LET spans == SelectSeq(devices, is_span_device)
    IN  [i \in DOMAIN spans |->
            [spans[i] EXCEPT !.entities = entities_by_device(ents, spans[i].id)]]

\* The test that sends a span device to `panels` rather than to
\* children_by_parent
is_tree_root(device, spans) ==
    \/ device.model = MODEL_PANEL
    \/ ~( /\ Truthy(device.via_device_id)
          /\ \E i \in DOMAIN spans : spans[i].id = device.via_device_id )

\* children_by_parent.get(panel.id, [])
children_by_parent(spans, id) ==
    LET Child(device) == ~is_tree_root(device, spans) /\ device.via_device_id = id
    IN  SelectSeq(spans, Child)

\* What a single-valued slot holds after the loop over the children: the
\* last child of that model
SlotOf(children, model) ==
    LET Fits(child) == child.model = model
        fits == SelectSeq(children, Fits)
    IN  IF fits = <<>> THEN <<>> ELSE << fits[Len(fits)] >>

\* The SpanDeviceTree the loop builds for one panel.
TreeOf(panel, spans) ==
    LET children == children_by_parent(spans, panel.id)
        IsCircuit(child) ==
            child.model \notin {MODEL_BATTERY, MODEL_SOLAR, MODEL_EV_CHARGER, MODEL_SITE_METERING}
    IN  [panel |-> [panel EXCEPT !.children = [i \in DOMAIN children |-> children[i].id]],
         circuits |-> SelectSeq(children, IsCircuit),
         battery |-> SlotOf(children, MODEL_BATTERY),
         solar |-> SlotOf(children, MODEL_SOLAR),
         ev_charger |-> SlotOf(children, MODEL_EV_CHARGER),
         site_metering |-> SlotOf(children, MODEL_SITE_METERING)]

\* _build_trees(devices, entities)
build_trees(devices, ents) ==
    LET spans == span_devices(devices, ents)
        IsRoot(device) == is_tree_root(device, spans)
        panels == SelectSeq(spans, IsRoot)
    IN  [i \in DOMAIN panels |-> TreeOf(panels[i], spans)]

\* The registry lists at most MaxDevices devices.
MaxDevices == 3

DeviceIds == << "d1", "d2", "d3", "d4", "d5" >>

\* The model strings a registered device may carry.
Models ==
    {MODEL_PANEL, MODEL_CIRCUIT, MODEL_BATTERY, MODEL_SOLAR, MODEL_EV_CHARGER,
     MODEL_SITE_METERING, "Gateway", None}

\* A device as _parse_device returns it.
RegistryDevice(id, model, domain, via_device_id) ==
    [id |-> id, model |-> model, identifiers |-> << <<domain, <<id>>>> >>,
     via_device_id |-> via_device_id, entities |-> <<>>, children |-> <<>>]

\* A span_ebus entity of a device, or of none.
RegistryEntity(device_id) ==
    [entity_id |-> <<"sensor", device_id>>, unique_id |-> <<device_id, "power">>,
     device_id |-> device_id, disabled_by |-> None]

\* The ids a chain of via references leads through, from id on, in at most
\* n steps.
RECURSIVE ViaChain(_, _, _)
ViaChain(via, id, n) ==
    IF n = 0 \/ id = None THEN {}
    ELSE {id} \cup UNION {ViaChain(via, via[k], n - 1) :
                            k \in {j \in DOMAIN via : DeviceIds[j] = id}}

\* The registries: a panel first, then devices of any model, of the Panel
\* integration or another, whose via names no device or another device listed (never
\* in a circle);
\* an entity for each device and one for no device.
InitRegistry ==
    /\ PrefsIdle /\ CliIdle /\ EngineIdle
    /\ \E n \in 1..MaxDevices :
       \E model \in [2..n -> Models] : \E domain \in [2..n -> {DOMAIN_SPAN, "tesla"}] :
       \E via \in [2..n -> {None} \cup {DeviceIds[k] : k \in 1..n}] :
         /\ \A i \in 2..n : DeviceIds[i] \notin ViaChain(via, via[i], n)
         /\ reg_devices =
              [i \in 1..n |->
                  IF i = 1 THEN RegistryDevice(DeviceIds[1], MODEL_PANEL, DOMAIN_SPAN, None)
                  ELSE RegistryDevice(DeviceIds[i], model[i], domain[i], via[i])]
    /\ reg_entities = [i \in 1..(Len(reg_devices) + 1) |->
                          IF i > Len(reg_devices) THEN RegistryEntity(None)
                          ELSE RegistryEntity(DeviceIds[i])]
    /\ stage = "registries"
    /\ found = <<>> /\ proposed_config = <<>> /\ all_entity_ids = {}
    /\ states = <<>> /\ renames = <<>>

\* trees = _build_trees(devices, span_entities)
BuildTrees ==
    /\ stage = "registries"
    /\ trees' = build_trees(reg_devices, reg_entities)
    /\ stage' = "trees"
    /\ UNCHANGED <<prefsVars, cliVars, topologies, integrations, circuit_roles, assignments,
                   warnings, built, reg_devices, reg_entities, found, proposed_config,
                   all_entity_ids, states, renames>>

NextRegistry == BuildTrees

SpecRegistry == InitRegistry /\ [][NextRegistry]_vars

-----------------------------------------------------------------------------
(* Registries whose via references may form a cycle *)

\* The model strings of the devices of a registry with cycles.
CycleModels == {MODEL_PANEL, MODEL_CIRCUIT, MODEL_BATTERY}

\* The registries: devices of the Panel integration or another, panels or
\* not, whose via names no device or any device listed, itself included;
\* an entity for each device.
InitCycle ==
    /\ PrefsIdle /\ CliIdle /\ EngineIdle
    /\ \E n \in 1..MaxDevices :
       \E model \in [1..n -> CycleModels] : \E domain \in [1..n -> {DOMAIN_SPAN, "tesla"}] :
       \E via \in [1..n -> {None} \cup {DeviceIds[k] : k \in 1..n}] :
         reg_devices =
             [i \in 1..n |-> RegistryDevice(DeviceIds[i], model[i], domain[i], via[i])]
    /\ reg_entities = [i \in 1..Len(reg_devices) |-> RegistryEntity(DeviceIds[i])]
    /\ stage = "registries"
    /\ found = <<>> /\ proposed_config = <<>> /\ all_entity_ids = {}
    /\ states = <<>> /\ renames = <<>>

SpecCycle == InitCycle /\ [][NextRegistry]_vars

-----------------------------------------------------------------------------
(* extract_span_topology on the trees of a registry *)

\* _find_sub_entity(device, suffix): the first entity of the sub-device
\* whose unique_id ends with "_" and the suffix
find_sub_entity(device, suffix) ==
    IF device = <<>> THEN <<>>
    ELSE LET Hit(entity) == /\ Len(entity.unique_id) > Len(suffix)
                            /\ EndsWith(entity.unique_id, suffix)
         IN  First(SelectSeq(device[1].entities, Hit))

\* The values _state_value and _state_attr take for no value (None and ""
\* are the empty string of words).
MissingValues == { <<>>, <<"unknown">>, <<"unavailable">> }

\* _state_value(states, entity): the state of the entity, if it has one
state_value(sts, entity) ==
    IF entity = <<>> THEN <<>>
    ELSE IF entity[1].entity_id \notin DOMAIN sts THEN <<>>
    ELSE LET val == sts[entity[1].entity_id].state
         IN  IF val \in MissingValues THEN <<>> ELSE << val >>

\* _state_attr(states, entity, attr_name)
state_attr(sts, entity, attr_name) ==
    IF entity = <<>> THEN <<>>
    ELSE IF entity[1].entity_id \notin DOMAIN sts THEN <<>>
    ELSE LET attributes == sts[entity[1].entity_id].attributes
             val == IF attr_name \in DOMAIN attributes THEN attributes[attr_name] ELSE <<>>
         IN  IF val \in MissingValues THEN <<>> ELSE << val >>

\* str | None fields of SpanTopology: a position is one word or None, the
\* other fields are the words of the value, none for None.
PositionOf(value) == IF value = <<>> THEN None ELSE value[1][1]

WordsOf(value) == IF value = <<>> THEN <<>> ELSE value[1]

\* The SpanTopology the loop of extract_span_topology makes for one tree.
TopologyOf(tree, sts) ==
    LET bess == tree.battery
        pv == tree.solar
        bess_feed == find_sub_entity(bess, <<"feed">>)
        pv_feed == find_sub_entity(pv, <<"feed">>)
    IN  [serial |-> serial(tree),
         is_lead_panel |-> tree.panel.via_device_id = None,
         battery_position |->
             PositionOf(state_value(sts, find_sub_entity(bess, <<"relative-position">>))),
         battery_vendor |-> WordsOf(state_value(sts, find_sub_entity(bess, <<"vendor-name">>))),
         battery_model |-> WordsOf(state_value(sts, find_sub_entity(bess, <<"model">>))),
         battery_serial |-> WordsOf(state_value(sts, find_sub_entity(bess, <<"serial-number">>))),
         battery_feed_circuit_name |-> WordsOf(state_value(sts, bess_feed)),
         battery_feed_circuit_id |-> WordsOf(state_attr(sts, bess_feed, "circuit_id")),
         solar_position |->
             PositionOf(state_value(sts, find_sub_entity(pv, <<"relative-position">>))),
         solar_vendor |-> WordsOf(state_value(sts, find_sub_entity(pv, <<"vendor-name">>))),
         solar_product |-> WordsOf(state_value(sts, find_sub_entity(pv, <<"product-name">>))),
         solar_feed_circuit_name |-> WordsOf(state_value(sts, pv_feed)),
         solar_feed_circuit_id |-> WordsOf(state_attr(sts, pv_feed, "circuit_id"))]

\* extract_span_topology(trees, states): one topology per tree that has a
\* serial
extract_span_topology(ts, sts) ==
    LET HasSerial(tree) == serial(tree) # NoId
        kept == SelectSeq(ts, HasSerial)
    IN  [i \in DOMAIN kept |-> TopologyOf(kept[i], sts)]

\* The model strings of the devices whose topology is extracted.
ExtractModels == {MODEL_PANEL, MODEL_BATTERY, MODEL_SOLAR, "Gateway"}

\* The properties every device has an entity for.
ExtractProperties == << "relative-position", "vendor-name", "feed" >>

\* An entity of a device for one property, unique_id "{device}_{property}".
ExtractEntity(device_id, property) ==
    [entity_id |-> <<"sensor", device_id, property>>, unique_id |-> <<device_id, property>>,
     device_id |-> device_id, disabled_by |-> None]

\* What get_states may report for the entity of a property.
StateOf(property, position) ==
    CASE property = "relative-position" -> [state |-> position, attributes |-> <<>>]
      [] property = "vendor-name" -> [state |-> <<"Tesla">>, attributes |-> <<>>]
      [] OTHER -> [state |-> <<"Kitchen">>,
                   attributes |-> IF position = <<"IN_PANEL">>
                                  THEN [circuit_id |-> <<"a1">>] ELSE <<>>]

\* The registries: a panel of the Panel integration first, then devices of
\* any model, of the Panel integration or another; the via of each names no
\* device, a device that is not listed ("hub") or another device listed,
\* never in a circle; three entities per device; get_states knows none of
\* them or reports one position for all.
InitExtract ==
    /\ PrefsIdle /\ CliIdle /\ EngineIdle
    /\ \E n \in 1..MaxDevices :
       \E model \in [2..n -> ExtractModels] : \E domain \in [2..n -> {DOMAIN_SPAN, "tesla"}] :
       \E via \in [1..n -> {None, "hub"} \cup {DeviceIds[k] : k \in 1..n}] :
         /\ \A i \in 1..n : DeviceIds[i] \notin ViaChain(via, via[i], n)
         /\ reg_devices =
              [i \in 1..n |->
                  IF i = 1 THEN RegistryDevice(DeviceIds[1], MODEL_PANEL, DOMAIN_SPAN, via[1])
                  ELSE RegistryDevice(DeviceIds[i], model[i], domain[i], via[i])]
    /\ reg_entities =
         [j \in 1..(3 * Len(reg_devices)) |->
             ExtractEntity(DeviceIds[((j - 1) \div 3) + 1], ExtractProperties[((j - 1) % 3) + 1])]
    /\ \E known \in BOOLEAN :
       \E position \in { <<"UPSTREAM">>, <<"IN_PANEL">>, <<"unknown">> } :
         states = IF known
                  THEN [e \in {reg_entities[j].entity_id : j \in DOMAIN reg_entities} |->
                           StateOf(e[3], position)]
                  ELSE <<>>
    /\ stage = "registries"
    /\ found = <<>> /\ proposed_config = <<>> /\ all_entity_ids = {} /\ renames = <<>>

\* topologies = extract_span_topology(trees, states)
ExtractTopology ==
    /\ stage = "trees"
    /\ topologies' = extract_span_topology(trees, states)
    /\ stage' = "topologies"
    /\ UNCHANGED <<prefsVars, cliVars, trees, integrations, circuit_roles, assignments,
                   warnings, built, reg_devices, reg_entities, found, proposed_config,
                   all_entity_ids, states, renames>>

NextExtract == BuildTrees \/ ExtractTopology

SpecExtract == InitExtract /\ [][NextExtract]_vars

-----------------------------------------------------------------------------
(* _compute_renames: entity-ids that follow the device names *)

\* What slugify makes of one word of a text: lowercase letters and digits;
\* a word of other characters only gives nothing.
SlugWord(word) ==
    CASE word = "Kitchen" -> <<"kitchen">>
      [] word = "Garage" -> <<"garage">>
      [] word = "Power" -> <<"power">>
      [] word = "&" -> <<>>
      [] OTHER -> <<word>>

\* slugify(text): the words of the slug, which "_" joins
slugify(text) == Concat([i \in DOMAIN text |-> SlugWord(text[i])])

\* _expected_entity_id(domain, device, entity): "{domain}.{object_id}" as
\* the domain followed by the words of the object id
expected_entity_id(domain, device, entity) ==
    LET device_name == IF device.name_by_user # <<>> THEN device.name_by_user ELSE device.name
        entity_name == entity.original_name
        object_id == IF entity_name # <<>> THEN slugify(device_name \o entity_name)
                     ELSE slugify(device_name)
    IN  <<domain>> \o object_id

\* SpanDeviceTree.all_child_devices
all_child_devices(tree) == tree.battery \o tree.solar \o tree.ev_charger \o tree.site_metering

\* First pass of _compute_renames: the proposed renames of one device, in
\* entity order.
ProposedOf(device) ==
    LET expected(entity) == expected_entity_id(entity.entity_id[1], device, entity)
        Differs(entity) == entity.has_entity_name /\ expected(entity) # entity.entity_id
        hits == SelectSeq(device.entities, Differs)
    IN  [i \in DOMAIN hits |->
            [device |-> device.id, entity |-> hits[i], new_id |-> expected(hits[i])]]

\* _compute_renames(trees, all_entity_ids): (device, entity, new_entity_id)
\* of the renames that pass both collision checks
compute_renames(ts, all_ids) ==
    LET devices == Concat([t \in DOMAIN ts |-> ts[t].circuits \o all_child_devices(ts[t])])
        proposed == Concat([d \in DOMAIN devices |-> ProposedOf(devices[d])])
        vacating == {proposed[i].entity.entity_id : i \in DOMAIN proposed}
        claiming(new_id) == {i \in DOMAIN proposed : proposed[i].new_id = new_id}
        Passes(p) == /\ ~(p.new_id \in all_ids /\ p.new_id \notin vacating)
                     /\ ~(Cardinality(claiming(p.new_id)) > 1)
    IN  SelectSeq(proposed, Passes)

\* A tree has at most MaxRenamed devices with an entity each.
MaxRenamed == 3

\* The names a device may carry.
DeviceNames == { <<"Kitchen">>, <<"Garage">>, <<"Garage", "&">> }

\* The entity-ids in use: sensor.kitchen_power, sensor.garage_power,
\* sensor.circuit_1_power.
IdPool ==
    { <<"sensor", "kitchen", "power">>, <<"sensor", "garage", "power">>,
      <<"sensor", "circuit", "1", "power">> }

\* A device with one entity.
NamedDevice(id, name, name_by_user, entity_id, original_name, has_entity_name) ==
    [id |-> id, name |-> name, name_by_user |-> name_by_user,
     entities |-> << [entity_id |-> entity_id, original_name |-> original_name,
                      has_entity_name |-> has_entity_name] >>]

\* One tree of up to MaxRenamed devices, circuits and possibly a battery,
\* each with one entity under an entity-id of its own; the registry knows
\* these entity-ids and any others of the pool (entities of other
\* integrations).
InitNormalize ==
    /\ PrefsIdle /\ CliIdle
    /\ \E n \in 1..MaxRenamed : \E name \in [1..n -> DeviceNames] :
       \E by_user \in { <<>>, <<"Garage">> } : \E original_name \in { <<"Power">>, <<>> } :
       \E current \in {c \in [1..n -> IdPool] : \A i, j \in 1..n : c[i] = c[j] => i = j} :
       \E named \in [1..n -> BOOLEAN] : \E has_battery \in BOOLEAN :
       \E others \in SUBSET (IdPool \ {current[i] : i \in 1..n}) :
         LET devices == [i \in 1..n |->
                            NamedDevice(DeviceIds[i], name[i], IF i = 1 THEN by_user ELSE <<>>,
                                        current[i], original_name, named[i])]
             circuits == IF has_battery THEN SubSeq(devices, 1, n - 1) ELSE devices
         IN  /\ trees = << [panel |-> [id |-> "panel", name |-> <<"SPAN", "Panel">>,
                                       name_by_user |-> <<>>, entities |-> <<>>],
                            circuits |-> circuits,
                            battery |-> IF has_battery THEN << devices[n] >> ELSE <<>>,
                            solar |-> <<>>, ev_charger |-> <<>>, site_metering |-> <<>>] >>
             /\ all_entity_ids = {current[i] : i \in 1..n} \cup others
    /\ topologies = <<>> /\ integrations = <<>> /\ circuit_roles = <<>>
    /\ assignments = <<>> /\ warnings = <<>> /\ built = FALSE
    /\ reg_devices = <<>> /\ reg_entities = <<>> /\ stage = "normalize"
    /\ found = <<>> /\ proposed_config = <<>> /\ states = <<>> /\ renames = <<>>

\* renames = _compute_renames(trees, all_entity_ids)
ComputeRenames ==
    /\ stage = "normalize"
    /\ renames' = compute_renames(trees, all_entity_ids)
    /\ stage' = "renames"
    /\ UNCHANGED <<prefsVars, cliVars, engineVars, reg_devices, reg_entities, found,
                   proposed_config, all_entity_ids, states>>

NextNormalize == ComputeRenames

SpecNormalize == InitNormalize /\ [][NextNormalize]_vars

-----------------------------------------------------------------------------
(* HAClient.send_command on one connection *)

\* One connection carries at most MaxCommands commands, and at most
\* MaxResponses responses arrive while a command waits.
MaxCommands == 3

MaxResponses == 2

\* A response as json.loads returns it: its id (0: it has none), its
\* success flag, and its result or error message.
Response(id, success, payload) == [id |-> id, success |-> success, payload |-> payload]

\* What the socket may deliver while command id waits: responses to this
\* command or to earlier ones, or messages without id; the i-th carries
\* payload "r<i>".
Arrivals(id) ==
    LET Payloads == << "r1", "r2", "r3" >>
    IN  UNION {{[i \in 1..n |-> Response(rid[i], success[i], Payloads[i])] :
                  rid \in [1..n -> 0..id], success \in [1..n -> BOOLEAN]} :
               n \in 0..MaxResponses}

\* A plausible slip: the first response is taken whatever its id.
ReadAny(arriving, id, i) ==
    IF i > Len(arriving) THEN [read |-> arriving, hit |-> <<>>]
    ELSE [read |-> SubSeq(arriving, 1, i), hit |-> << arriving[i] >>]

\* while True: response = recv(); if response.get("id") == self._msg_id: ...
\* The responses read from the i-th on, and the one that ended the loop
\* (none: recv timed out or the connection closed).
RECURSIVE ReadUntil(_, _, _)
ReadUntil(arriving, id, i) ==
    IF i > Len(arriving) THEN [read |-> arriving, hit |-> <<>>]
    ELSE IF arriving[i].id = id
    THEN [read |-> SubSeq(arriving, 1, i), hit |-> << arriving[i] >>]
    ELSE ReadUntil(arriving, id, i + 1)

\* The client has connected and authenticated (__aenter__ has returned).
InitClient ==
    /\ PrefsIdle /\ EngineIdle /\ RegistryIdle
    /\ cmd = "none" /\ prune = FALSE /\ dry_run = FALSE
    /\ noTrees = FALSE /\ noStale = FALSE
    /\ ip = 0 /\ status = "returned" /\ ws = TRUE /\ msg_id = 0 /\ log = <<>>

\* await client.send_command(msg_type): the whole call.  ip counts the
\* calls.
ClientSend ==
    /\ ip < MaxCommands
    /\ ip' = ip + 1
    /\ \E msg_type \in {"energy/get_prefs"} :
         IF ~ws
         THEN /\ log' = Append(log, Event("error", "Not connected", 0))
              /\ status' = "raised"
              /\ UNCHANGED msg_id
         ELSE \E sent \in BOOLEAN : \E arriving \in Arrivals(msg_id + 1) :
                LET id == msg_id + 1
                    r == ReadUntil(arriving, id, 1)
                    recvs == [i \in DOMAIN r.read |->
                                 Event(IF r.read[i].success THEN "recv_ok" ELSE "recv_failed",
                                       r.read[i].payload, r.read[i].id)]
                    ok == r.hit # <<>> /\ r.hit[1].success
                    outcome == IF r.hit = <<>> THEN Event("error", "timed out", id)
                               ELSE IF r.hit[1].success THEN Event("result", r.hit[1].payload, id)
                               ELSE Event("error", r.hit[1].payload, id)
                IN  /\ msg_id' = id
                    /\ IF sent
                       THEN /\ log' = (Append(log, Event("send", msg_type, id)) \o recvs)
                                        \o << outcome >>
                            /\ status' = IF ok THEN "returned" ELSE "raised"
                       ELSE /\ arriving = <<>>
                            /\ log' = Append(log, Event("error", "not sent", id))
                            /\ status' = "raised"
    /\ UNCHANGED <<cmd, prune, dry_run, noTrees, noStale, ws, prefsVars, engineVars, registryVars>>

\* HAClient.__aexit__: the connection is closed
ClientClose ==
    /\ ws
    /\ ws' = FALSE
    /\ UNCHANGED <<cmd, prune, dry_run, noTrees, noStale, ip, status, msg_id, log, prefsVars,
                   engineVars, registryVars>>

NextClient == ClientSend \/ ClientClose

SpecClient == InitClient /\ [][NextClient]_vars

-----------------------------------------------------------------------------
(* The circuit classifier and the engine, on installations of two panels *)

\* The node-ids a feed entity's circuit_id attribute may name: the first
\* circuit of either panel.
FeedIds == { <<NodeIds[1][1]>>, <<NodeIds[2][1]>> }

\* What a panel's battery entities may report to the classifier.
BatteryReports ==
    { [battery_position |-> None, battery_vendor |-> <<>>, battery_feed_circuit_id |-> NoId] }
    \cup { [battery_position |-> position, battery_vendor |-> <<"Tesla">>,
            battery_feed_circuit_id |-> feed] :
              position \in {"IN_PANEL", "UPSTREAM"}, feed \in FeedIds \cup {NoId} }

\* What a panel's solar entities may report to the classifier.
SolarReports ==
    { [solar_position |-> None, solar_vendor |-> <<>>, solar_feed_circuit_id |-> NoId] }
    \cup { [solar_position |-> position, solar_vendor |-> <<"Enphase", "Energy">>,
            solar_feed_circuit_id |-> feed] :
              position \in {"IN_PANEL", "UPSTREAM"}, feed \in FeedIds \cup {NoId} }

\* Two panels with their circuits (the second has one circuit or none, and
\* a second panel that has none and reports nothing leaves the first on its
\* own); each panel's sub-devices report any position and name as feed a
\* circuit of either panel, or none.
InitClassify ==
    /\ PrefsIdle /\ CliIdle
    /\ \E k \in {2} : \E n \in [1..k -> 0..MaxCircuits] :
       \E battery \in [1..k -> BatteryReports] : \E solar \in [1..k -> SolarReports] :
         LET ts == [p \in 1..k |->
                       Tree(p, "lugs", FALSE, n[p], IF p = 1 THEN None ELSE PanelIds[1])]
         IN  /\ n[1] >= 1 /\ n[2] <= 1
             /\ trees = ts
             /\ topologies = [p \in 1..k |-> SpanTopology(ts[p], battery[p], solar[p])]
    /\ integrations = <<>> /\ circuit_roles = <<>>
    /\ assignments = <<>> /\ warnings = <<>> /\ built = FALSE
    /\ reg_devices = <<>> /\ reg_entities = <<>> /\ stage = "classify"
    /\ found = <<>> /\ proposed_config = <<>> /\ all_entity_ids = {}
    /\ states = <<>> /\ renames = <<>>

\* circuit_roles = classify_circuits(trees, topologies)
Classify ==
    /\ stage = "classify"
    /\ circuit_roles' = classify_circuits(trees, topologies)
    /\ stage' = "classified"
    /\ UNCHANGED <<prefsVars, cliVars, trees, topologies, integrations, assignments,
                   warnings, built, reg_devices, reg_entities, found, proposed_config,
                   all_entity_ids, states, renames>>

\* classify_circuits, then build_energy_topology with the roles it returned
\* (or with none)
NextClassify == Classify \/ Build

SpecClassify == InitClassify /\ [][NextClassify]_vars

-----------------------------------------------------------------------------
(* Claims about build_energy_topology *)

\* C1: no entity-id appears in preferred assignments of two different roles
\* among grid_import, grid_export, solar, battery_discharge, battery_charge.
C1_NoDoubleCount ==
    built =>
        \A i, j \in DOMAIN assignments :
            ( /\ assignments[i].preferred /\ assignments[j].preferred
              /\ assignments[i].role \in SourceRoles /\ assignments[j].role \in SourceRoles
              /\ assignments[i].entity_id = assignments[j].entity_id )
            => assignments[i].role = assignments[j].role


\* The device_consumption assignments of the result.
Consumption == SelectSeq(assignments, IsConsumption)

\* The parents an entity is given by the consumption assignments.
ParentsOf(e) ==
    {Consumption[i].parent_entity_id :
        i \in {j \in DOMAIN Consumption : /\ Consumption[j].entity_id = e
                                          /\ Consumption[j].parent_entity_id # NoId}}

\* What is reached from the entities S in at most n steps up.
RECURSIVE Ancestors(_, _)
Ancestors(S, n) ==
    IF n = 0 THEN {}
    ELSE LET up == UNION {ParentsOf(e) : e \in S}
         IN  up \cup Ancestors(up, n - 1)

\* C11: in every output of build_energy_topology the parent_entity_id
\* relation over the device_consumption assignments is a forest: an entity
\* has at most one parent, every parent is itself a consumption assignment,
\* and no entity is its own ancestor (so every walk up ends at an
\* assignment without a parent).
C11_SankeyForest ==
    built =>
        \A i \in DOMAIN Consumption :
            LET e == Consumption[i].entity_id
            IN  /\ Cardinality(ParentsOf(e)) <= 1
                /\ \A p \in ParentsOf(e) : \E j \in DOMAIN Consumption : Consumption[j].entity_id = p
                /\ e \notin Ancestors({e}, Len(Consumption))

\* A circuit below a panel below a panel, in an installation whose via
\* references form a cycle.
C11_Witness ==
    /\ built
    /\ \E i \in DOMAIN Consumption :
         \E p \in ParentsOf(Consumption[i].entity_id) : ParentsOf(p) # {}
    /\ \E i, j \in DOMAIN trees :
         /\ i # j
         /\ trees[i].panel.via_device_id = trees[j].panel.id
         /\ trees[j].panel.via_device_id = trees[i].panel.id

\* The panels a tree's via leads to, in at most n steps.
RECURSIVE ViaAncestors(_, _)
ViaAncestors(ids, n) ==
    IF n = 0 THEN {}
    ELSE LET up == {trees[i].panel.via_device_id :
                      i \in {j \in DOMAIN trees : trees[j].panel.id \in ids}} \ {None}
         IN  up \cup ViaAncestors(up, n - 1)

\* The via references of the panels form a forest.
ViaForest ==
    \A i \in DOMAIN trees : trees[i].panel.id \notin ViaAncestors({trees[i].panel.id}, Len(trees))

\* The entity-id of a tree's upstream imported energy (none: NoId).
UpstreamId(tree) == IdOf(find_upstream_energy(tree, <<"imported-energy">>))

\* No panel's upstream imported energy is a preferred grid source.
UpstreamNotGrid ==
    \A i \in DOMAIN trees : \A j \in DOMAIN assignments :
        (assignments[j].role = "grid_import" /\ assignments[j].preferred)
            => assignments[j].entity_id # UpstreamId(trees[i])

\* The upstream entity of the panel a tree's via references (NoId for a root).
ViaUpstreamId(tree) ==
    LET hits == {i \in DOMAIN trees : trees[i].panel.id = tree.panel.via_device_id}
    IN  IF hits = {} THEN NoId ELSE UpstreamId(trees[CHOOSE i \in hits : TRUE])

\* C12: when the panels' upstream is not the preferred grid source, then
\* for every forest of daisy-chained panels, in whatever order the trees are
\* passed: each panel's upstream imported energy is a consumption
\* assignment whose parent is the upstream entity of the panel its via
\* references (none for a root), and each circuit's consumption assignment
\* has its own panel's upstream entity as parent.
C12_DaisyChainParents ==
    (built /\ ViaForest /\ UpstreamNotGrid) =>
        \A i \in DOMAIN trees :
            /\ UpstreamId(trees[i]) # NoId =>
                 /\ \E a \in Range(Consumption) : a.entity_id = UpstreamId(trees[i])
                 /\ \A a \in Range(Consumption) :
                      a.entity_id = UpstreamId(trees[i])
                          => a.parent_entity_id = ViaUpstreamId(trees[i])
            /\ \A c \in Range(trees[i].circuits) :
                 LET e == IdOf(find_circuit_entity(c, <<"exported-energy">>))
                 IN  /\ \E a \in Range(Consumption) : a.entity_id = e
                     /\ \A a \in Range(Consumption) :
                          a.entity_id = e => a.parent_entity_id = UpstreamId(trees[i])

\* A chain of three panels passed leaf first, each with upstream lugs and a
\* circuit, behind a battery.
C12_Witness ==
    /\ built /\ ViaForest /\ UpstreamNotGrid
    /\ Len(trees) = 3
    /\ trees[1].panel.via_device_id = trees[2].panel.id
    /\ trees[2].panel.via_device_id = trees[3].panel.id
    /\ \A i \in DOMAIN trees : UpstreamId(trees[i]) # NoId /\ trees[i].circuits # <<>>
    /\ \E a \in Range(Consumption) :
         a.entity_id = UpstreamId(trees[1]) /\ a.parent_entity_id = UpstreamId(trees[2])

\* The grid_import / grid_export assignments of the result.
IsGrid(a) == a.role \in {"grid_import", "grid_export"}

GridAssignments == SelectSeq(assignments, IsGrid)

\* The integration that matches the battery vendor the panels report.
MatchedBatteryIntegration == find_platform_for_vendor(bess_vendor(topologies), integrations)

\* Every tree's Panel upstream imported / exported entity is a grid
\* assignment of its role with the given preference, and of no other.
UpstreamIsGrid(preferred) ==
    \A i \in DOMAIN trees :
        /\ LET e == find_upstream_energy(trees[i], <<"imported-energy">>)
           IN  e # <<>> =>
                 /\ \E a \in Range(GridAssignments) :
                      a.role = "grid_import" /\ a.entity_id = e[1].entity_id
                 /\ \A a \in Range(GridAssignments) :
                      (a.role = "grid_import" /\ a.entity_id = e[1].entity_id)
                          => a.preferred = preferred
        /\ LET e == find_upstream_energy(trees[i], <<"exported-energy">>)
           IN  e # <<>> =>
                 /\ \E a \in Range(GridAssignments) :
                      a.role = "grid_export" /\ a.entity_id = e[1].entity_id
                 /\ \A a \in Range(GridAssignments) :
                      (a.role = "grid_export" /\ a.entity_id = e[1].entity_id)
                          => a.preferred = preferred

\* The entity-ids an integration registers.
IntegrationIds(integration) ==
    {integration.energy_entities[i].entity_id : i \in DOMAIN integration.energy_entities}

\* C13: if every panel topology reports the battery UPSTREAM and an
\* integration matches the battery vendor, the preferred grid_import /
\* grid_export assignments are entities of that integration and every Panel
\* upstream imported / exported entity is a non-preferred grid assignment;
\* otherwise each tree's Panel upstream imported / exported entities are
\* the preferred grid assignments and no integration entity is a grid
\* assignment.
C13_GridSourceRule ==
    built =>
        IF /\ topologies # <<>>
           /\ \A i \in DOMAIN topologies : topologies[i].battery_position = "UPSTREAM"
           /\ MatchedBatteryIntegration # <<>>
        THEN /\ \A a \in Range(GridAssignments) :
                  a.preferred => /\ a.platform = MatchedBatteryIntegration[1].platform
                                 /\ a.entity_id \in IntegrationIds(MatchedBatteryIntegration[1])
             /\ \A r \in {"import", "export"} :
                  (\E e \in IntegrationIds(MatchedBatteryIntegration[1]) : Contains(e, <<r>>))
                      => \E a \in Range(GridAssignments) :
                            a.preferred /\ a.role = IF r = "import" THEN "grid_import" ELSE "grid_export"
             /\ UpstreamIsGrid(FALSE)
        ELSE /\ UpstreamIsGrid(TRUE)
             /\ \A a \in Range(GridAssignments) :
                  /\ a.platform = "span_ebus"
                  /\ \A i \in DOMAIN integrations : a.entity_id \notin IntegrationIds(integrations[i])

\* Two panels behind a Powerwall, both with upstream lugs: the Powerwall's
\* site import is the preferred grid import, both panels' lugs are not.
C13_Witness ==
    /\ built /\ Len(trees) = 2
    /\ \A i \in DOMAIN topologies : topologies[i].battery_position = "UPSTREAM"
    /\ MatchedBatteryIntegration # <<>>
    /\ \E a \in Range(GridAssignments) :
         a.preferred /\ a.role = "grid_import" /\ a.entity_id = <<"pw", "site", "import">>
    /\ \A i \in DOMAIN trees :
         \E a \in Range(GridAssignments) :
            ~a.preferred /\ a.entity_id = UpstreamId(trees[i]) /\ a.entity_id # NoId

\* The roles were computed by classify_circuits from the same trees and
\* topologies.
Classified == circuit_roles = classify_circuits(trees, topologies)

\* The circuits chosen as the feed of an in-panel battery.
BatteryFeedCircuits ==
    UNION { Range(find_circuit_by_node_id(trees, topologies[i].battery_feed_circuit_id)) :
              i \in {j \in DOMAIN topologies :
                       /\ topologies[j].battery_position = "IN_PANEL"
                       /\ topologies[j].battery_feed_circuit_id # NoId} }

\* C14: following classify_circuits with build_energy_topology, no entity
\* is both a preferred battery_charge or battery_discharge assignment and a
\* preferred device_consumption assignment, and the circuit chosen as the
\* feed of an in-panel battery contributes no device_consumption entry.
C14_BatteryFeedNotConsumption ==
    (built /\ Classified) =>
        /\ \A i, j \in DOMAIN assignments :
             ( /\ assignments[i].preferred /\ assignments[j].preferred
               /\ assignments[i].role \in {"battery_charge", "battery_discharge"}
               /\ assignments[j].role = "device_consumption" )
             => assignments[i].entity_id # assignments[j].entity_id
        /\ \A c \in BatteryFeedCircuits : \A a \in Range(Consumption) :
             \A k \in DOMAIN c.entities : a.entity_id # c.entities[k].entity_id

-----------------------------------------------------------------------------
(* Claims about the upstream entity lookups *)

\* The enabled entities of a device whose unique-id ends with the suffix,
\* in registry order.
EnabledEnding(device, suffix) ==
    LET Hit(entity) == entity.disabled_by = None /\ EndsWith(entity.unique_id, suffix)
    IN  SelectSeq(device.entities, Hit)

\* The three locations of a tree's upstream entity for a property, in the
\* order they are asked.
UpstreamCandidates(tree, property) ==
    EnabledEnding(tree.panel, <<"lugs-upstream", property>>)
    \o (IF tree.site_metering # <<>>
        THEN EnabledEnding(tree.site_metering[1], <<property>>) ELSE <<>>)
    \o EnabledEnding(tree.panel, <<property>>)

\* The grid sources of the proposed configuration.
ProposedGrids ==
    LET IsGridSource(source) == source.type = "grid"
    IN  SelectSeq(proposed_config.energy_sources, IsGridSource)

\* C15: the upstream entity lookup (_find_upstream_energy, and the grid
\* lookup inside build_energy_config) returns the first enabled entity
\* among (1) the Panel entities whose unique-id ends with
\* "lugs-upstream_" + suffix, (2) the site-metering entities whose unique-id
\* ends with the suffix, (3) the Panel entities whose unique-id ends with
\* the suffix, and nothing only when there is none in all three.
C15_UpstreamFallbackChain ==
    /\ stage = "found" =>
         /\ found.entity = First(UpstreamCandidates(trees[1], found.suffix))
         /\ found.entity = <<>> <=> UpstreamCandidates(trees[1], found.suffix) = <<>>
    /\ stage = "config" =>
         LET imported == First(UpstreamCandidates(trees[1], "imported-energy"))
             exported == First(UpstreamCandidates(trees[1], "exported-energy"))
         IN  IF imported = <<>> /\ exported = <<>>
             THEN ProposedGrids = <<>>
             ELSE /\ Len(ProposedGrids) = 1
                  /\ ProposedGrids[1].flow_from =
                       [i \in DOMAIN imported |-> [stat_energy_from |-> imported[i].entity_id]]
                  /\ ProposedGrids[1].flow_to =
                       [i \in DOMAIN exported |-> [stat_energy_to |-> exported[i].entity_id]]

\* The panel's upstream lug entity is disabled and there is no enabled
\* site-metering entity: the lookup falls through to the panel's other
\* entity with that suffix.
C15_Witness ==
    /\ stage = "found"
    /\ \E i \in DOMAIN trees[1].panel.entities :
         /\ trees[1].panel.entities[i].disabled_by # None
         /\ EndsWith(trees[1].panel.entities[i].unique_id, <<"lugs-upstream", found.suffix>>)
    /\ trees[1].site_metering # <<>>
    /\ EnabledEnding(trees[1].site_metering[1], <<found.suffix>>) = <<>>
    /\ found.entity # <<>>
    /\ EndsWith(found.entity[1].unique_id, <<"lugs-downstream", found.suffix>>)

-----------------------------------------------------------------------------
(* Claims about the stale-reference audit *)

\* The device_consumption entries of a list whose id the registry knows.
KnownEntries(entries) ==
    LET Known(d) == Get(d, "stat_consumption") \in all_entity_ids
    IN  SelectSeq(entries, Known)

\* C16: for every preferences document P and every set K of known
\* entity-ids, removing from P the ids find_stale_references(P, K) reports
\* yields a document for which find_stale_references reports nothing
\* against K, and in which every device_consumption entry whose id is in K
\* is still present, in its original relative order.
C16_PruneRoundTrip ==
    /\ stage = "rechecked" => DOMAIN found = {}
    /\ (stage \in {"audit", "rechecked"} /\ outRoot # 0) =>
         /\ IsSubsequence(KnownEntries(InEntries), OutEntries)
         /\ KnownEntries(OutEntries) = KnownEntries(InEntries)

\* A document with stale sources and a stale entry beside a known entry:
\* pruning dropped a source and an entry and kept another entry, and the
\* second audit ran.
C16_Witness ==
    /\ stage = "rechecked"
    /\ Cardinality(staleIds) >= 2
    /\ Len(OutSources) < Len(InSources)
    /\ Len(OutEntries) < Len(InEntries)
    /\ KnownEntries(InEntries) # <<>>

-----------------------------------------------------------------------------
(* Claims about _build_trees *)

\* The devices the registry lists for the Panel integration.
SpanRegistered == {d \in Range(reg_devices) : is_span_device(d)}

\* The slot the model string selects.
SlotFor(model) ==
    CASE model = MODEL_BATTERY -> "battery"
      [] model = MODEL_SOLAR -> "solar"
      [] model = MODEL_EV_CHARGER -> "ev_charger"
      [] model = MODEL_SITE_METERING -> "site_metering"
      [] OTHER -> "circuits"

\* Where a device stands in the trees: (tree, slot, position) of every
\* occurrence as a child.
Placements(id) ==
    {<<t, slot, k>> \in (DOMAIN trees)
                        \X {"circuits", "battery", "solar", "ev_charger", "site_metering"}
                        \X (1..(MaxDevices + 2)) :
        k \in DOMAIN trees[t][slot] /\ trees[t][slot][k].id = id}

\* The ids of the devices that are the panel of a tree.
TreePanels == {trees[t].panel.id : t \in DOMAIN trees}

\* C17: _build_trees places every Panel-integration device that is not
\* itself a panel into exactly one tree, the tree of the device its via
\* references, in the slot its model string selects (Circuit or an unlisted
\* model: circuits; Battery Storage: battery; Solar PV: solar; EV Charger:
\* ev_charger; Site Metering: site_metering); devices of other integrations
\* appear in no tree.
C17_EveryChildPlaced ==
    stage = "trees" =>
        \A d \in Range(reg_devices) :
            IF is_span_device(d)
            THEN d.id \notin TreePanels =>
                   /\ Cardinality(Placements(d.id)) = 1
                   /\ \A p \in Placements(d.id) :
                        /\ trees[p[1]].panel.id = d.via_device_id
                        /\ p[2] = SlotFor(d.model)
            ELSE d.id \notin TreePanels /\ Placements(d.id) = {}

-----------------------------------------------------------------------------
(* Claims about classify_circuits *)

\* The panels whose solar (battery) feed-circuit node-id is the node-id.
SolarFeedPanels(node_id) ==
    {i \in DOMAIN topologies :
        node_id # NoId /\ topologies[i].solar_feed_circuit_id = node_id}

BatteryFeedPanels(node_id) ==
    {i \in DOMAIN topologies :
        node_id # NoId /\ topologies[i].battery_feed_circuit_id = node_id}

\* C18: classify_circuits emits exactly one role per circuit: pv_feed if
\* any panel's solar feed-circuit node-id equals the circuit's node-id, else
\* bess_feed if any panel's battery feed-circuit node-id does, else load;
\* a load suppresses return energy and keeps consumption, a pv_feed
\* in-panel suppresses neither, a pv_feed elsewhere suppresses return
\* energy, a bess_feed in-panel suppresses consumption only, a bess_feed
\* elsewhere suppresses return energy only.
C18_RoleAndFlags ==
    stage = "classified" =>
        /\ Len(circuit_roles) = Len(AllCircuits(trees))
        /\ \A i \in DOMAIN circuit_roles :
             LET r == circuit_roles[i]
                 node_id == circuit_node_id(r.circuit)
             IN  /\ r.circuit = AllCircuits(trees)[i]
                 /\ IF SolarFeedPanels(node_id) # {}
                    THEN /\ r.role = "pv_feed" /\ ~r.skip_consumption
                         /\ \E p \in SolarFeedPanels(node_id) :
                              r.skip_return_energy = (topologies[p].solar_position # "IN_PANEL")
                    ELSE IF BatteryFeedPanels(node_id) # {}
                    THEN /\ r.role = "bess_feed"
                         /\ \E p \in BatteryFeedPanels(node_id) :
                              IF topologies[p].battery_position = "IN_PANEL"
                              THEN r.skip_consumption /\ ~r.skip_return_energy
                              ELSE r.skip_return_energy /\ ~r.skip_consumption
                    ELSE r.role = "load" /\ r.skip_return_energy /\ ~r.skip_consumption

-----------------------------------------------------------------------------
(* Claims about preferred and non-preferred assignments *)

\* C19: in every output of build_energy_topology, each role that has a
\* non-preferred assignment also has a preferred assignment: a role is
\* never left with non-preferred claims alone.
C19_NonPreferredOnlyBesidePreferred ==
    built =>
        \A i \in DOMAIN assignments :
            ~assignments[i].preferred =>
                \E j \in DOMAIN assignments :
                    assignments[j].role = assignments[i].role /\ assignments[j].preferred

\* The preferred assignments of a role.
PreferredOf(role) ==
    {i \in DOMAIN assignments : assignments[i].role = role /\ assignments[i].preferred}

\* C20: across all panels, build_energy_topology emits at most one
\* preferred battery_discharge assignment and at most one preferred
\* battery_charge assignment, whatever the number of panels and their
\* battery positions.
C20_OneBatterySource ==
    built =>
        /\ Cardinality(PreferredOf("battery_discharge")) <= 1
        /\ Cardinality(PreferredOf("battery_charge")) <= 1

-----------------------------------------------------------------------------
(* Claims about the solar source *)

\* The panels whose solar is in-panel with a feed node-id that resolves to
\* a circuit device.
SolarInPanelResolved ==
    {p \in DOMAIN topologies :
        /\ topologies[p].solar_position = "IN_PANEL"
        /\ topologies[p].solar_feed_circuit_id # NoId
        /\ find_circuit_by_node_id(trees, topologies[p].solar_feed_circuit_id) # <<>>}

\* The entity-ids of the preferred solar assignments, in output order.
PreferredSolarIds ==
    LET IsPreferredSolar(a) == a.role = "solar" /\ a.preferred
        hits == SelectSeq(assignments, IsPreferredSolar)
    IN  [i \in DOMAIN hits |-> hits[i].entity_id]

\* The imported-energy entity of the circuit a panel's solar feed names.
SolarFeedEntity(p) ==
    IdOf(find_circuit_entity(
            find_circuit_by_node_id(trees, topologies[p].solar_feed_circuit_id)[1],
            <<"imported-energy">>))

\* The entity-ids of the vendor-matched PV integration, and of the first
\* solar sub-device that has an imported-energy entity.
MatchedPvIntegration == find_platform_for_vendor(pv_vendor(topologies), integrations)

SolarSubDeviceIds ==
    LET subs == SolarFallback(trees, <<>>)
    IN  [i \in DOMAIN subs |-> subs[i].entity_id]

\* C21: when some panel has solar in-panel and a feed node-id that resolves
\* to a circuit, the preferred solar assignment is the imported-energy
\* entity of the feed circuit of the first such panel, wherever it stands
\* and whatever the other panels report; only when there is no such panel
\* is the matched integration of an upstream panel preferred, and failing
\* that the solar sub-device.
C21_SolarPreference ==
    built =>
        IF SolarInPanelResolved # {}
        THEN LET p == CHOOSE q \in SolarInPanelResolved :
                          \A r \in SolarInPanelResolved : q <= r
             IN  PreferredSolarIds = << SolarFeedEntity(p) >>
        ELSE IF /\ MatchedPvIntegration # <<>>
                /\ \E q \in DOMAIN topologies : topologies[q].solar_position = "UPSTREAM"
        THEN Range(PreferredSolarIds) = IntegrationIds(MatchedPvIntegration[1])
        ELSE PreferredSolarIds = SolarSubDeviceIds

-----------------------------------------------------------------------------
(* Claims about cycles of via references *)

\* The Panel-integration devices reached from device id by following via
\* references through Panel-integration devices, in at most n steps.
RECURSIVE ViaReach(_, _)
ViaReach(id, n) ==
    LET next == {d.via_device_id : d \in {x \in SpanRegistered : x.id = id}}
                  \cap {x.id : x \in SpanRegistered}
    IN  IF n = 0 THEN {}
        ELSE next \cup UNION {ViaReach(v, n - 1) : v \in next}

\* The Panel-integration devices whose via eventually points to themselves.
OnCycle == {d.id : d \in {x \in SpanRegistered : x.id \in ViaReach(x.id, Len(reg_devices))}}

\* The ids of the devices some tree holds, as its panel or as a child.
TreeDevices == TreePanels \cup {d.id : d \in {x \in SpanRegistered : Placements(x.id) # {}}}

\* C22: when the via references among Panel-integration devices form a
\* cycle, the tree builder terminates, builds no tree out of the devices on
\* the cycle, and records a warning about it.
C22_CycleAbortsWithWarning ==
    (stage = "trees" /\ OnCycle # {}) =>
        /\ TreeDevices \cap OnCycle = {}
        /\ warnings # <<>>

-----------------------------------------------------------------------------
(* Claims about extract_span_topology *)

\* The panel's via resolves to another Panel device: a registered device
\* of model SPAN Panel other than the panel itself.
ViaResolvesToPanel(panel) ==
    \E d \in Range(reg_devices) :
        /\ d.id = panel.via_device_id /\ d.id # panel.id
        /\ d.model = MODEL_PANEL /\ is_span_device(d)

\* C23: for every tree, the extracted topology's is_lead_panel is true
\* exactly when the Panel device's via does not resolve to another Panel
\* device; in particular it is true when via is set but references a device
\* that is not a Panel.
C23_LeadPanelFlag ==
    stage = "topologies" =>
        \A t \in DOMAIN trees :
            \E p \in DOMAIN topologies :
                /\ topologies[p].serial = serial(trees[t])
                /\ topologies[p].is_lead_panel <=> ~ViaResolvesToPanel(trees[t].panel)

-----------------------------------------------------------------------------
(* Claims about warnings *)

\* Two circuits carry a node-id that a panel names as its battery or solar
\* feed.
DuplicateFeedNode ==
    \E p \in DOMAIN topologies :
        \E feed \in {topologies[p].battery_feed_circuit_id, topologies[p].solar_feed_circuit_id} :
            /\ feed # NoId
            /\ LET Carries(circuit) == circuit_node_id(circuit) = feed
               IN  Len(SelectSeq(AllCircuits(trees), Carries)) >= 2

\* A panel declares a battery or solar vendor that no integration matches.
UnmatchedVendor ==
    \E p \in DOMAIN topologies :
        \E vendor \in {topologies[p].battery_vendor, topologies[p].solar_vendor} :
            vendor # <<>> /\ find_platform_for_vendor(vendor, integrations) = <<>>

\* Two panels report different battery positions.
PositionsDisagree ==
    \E p, q \in DOMAIN topologies :
        /\ topologies[p].battery_position # None /\ topologies[q].battery_position # None
        /\ topologies[p].battery_position # topologies[q].battery_position

\* C24: build_energy_topology never raises on an ambiguous topology and
\* records a warnings entry on its output whenever two circuits carry the
\* same feed node-id, a panel declares a battery or solar vendor for which
\* no integration matches, or panels disagree on battery position.
C24_AmbiguityWarned ==
    (built /\ (DuplicateFeedNode \/ UnmatchedVendor \/ PositionsDisagree)) =>
        warnings # <<>>

-----------------------------------------------------------------------------
(* Claims about the order of the transformer's output *)

\* The stat_consumption of each entry, in list order.
StatsOf(entries) == [i \in DOMAIN entries |-> GetOr(entries[i], "stat_consumption", "")]

\* The output entries whose stat_consumption no input entry has: the newly
\* appended ones.
NewEntryAt(i) == StatsOf(OutEntries)[i] \notin Range(StatsOf(InEntries))

\* The least of the entity-ids a source references ("" when it has none).
LeastId(s) ==
    LET ids == SortedSet(extract_source_entity_ids(s))
    IN  IF ids = <<>> THEN "" ELSE ids[1]

\* C25: in the output of apply_topology_prefs, entries kept from the input
\* keep their input relative order and precede every newly appended entry,
\* and the newly appended entries, device_consumption entries and energy
\* sources alike, are in ascending lexical order of entity-id.
C25_KeptThenAppendedSorted ==
    (mode = "apply" /\ Called) =>
        LET new == {i \in DOMAIN OutEntries : NewEntryAt(i)}
            IsOld(stat) == stat \in Range(StatsOf(InEntries))
        IN  /\ \A i \in DOMAIN OutEntries : \A j \in new : i \notin new => i < j
            /\ IsSubsequence(SelectSeq(StatsOf(OutEntries), IsOld), StatsOf(InEntries))
            /\ \A i, j \in new : i < j => LexLeq(StatsOf(OutEntries)[i], StatsOf(OutEntries)[j])
            /\ Len(OutSources) >= Len(KeptSources)
            /\ \A i \in DOMAIN KeptSources :
                 DelKey(OutSources[i], "stat_rate") = DelKey(KeptSources[i], "stat_rate")
            /\ \A i, j \in DOMAIN AppendedSources :
                 i < j => LexLeq(LeastId(AppendedSources[i]), LeastId(AppendedSources[j]))

-----------------------------------------------------------------------------
(* Claims about _compute_renames *)

\* The current entity-ids of the entities the returned set renames.
RenamedAway == {renames[i].entity.entity_id : i \in DOMAIN renames}

\* C26: the rename set _compute_renames returns is collision-free: no two
\* entities receive the same new entity_id, and no new entity_id is the
\* current id of an entity that the returned set does not itself rename
\* away.
C26_RenamesCollisionFree ==
    stage = "renames" =>
        /\ \A i, j \in DOMAIN renames : renames[i].new_id = renames[j].new_id => i = j
        /\ \A i \in DOMAIN renames :
             renames[i].new_id \in all_entity_ids => renames[i].new_id \in RenamedAway

-----------------------------------------------------------------------------
(* Claims about HAClient.send_command *)

\* The positions of the log where a command was sent.
SendsAt == {i \in DOMAIN log : log[i].ev = "send"}

\* The commands that got an id on this connection: sent, or failed in the
\* sending.
IdsTaken == {i \in DOMAIN log : log[i].ev = "send" \/ (log[i].ev = "error" /\ log[i].type = "not sent")}

\* The log of one call that sent at position s: up to the next call.
CallEnd(s) ==
    LET later == {i \in DOMAIN log : i > s /\ (i \in IdsTaken \/ log[i].type = "Not connected")}
    IN  IF later = {} THEN Len(log) ELSE (CHOOSE i \in later : \A j \in later : i <= j) - 1

\* The responses a call received, in order of arrival.
ReceivedBy(s) ==
    LET IsRecv(e) == e.ev \in {"recv_ok", "recv_failed"}
    IN  SelectSeq(SubSeq(log, s + 1, CallEnd(s)), IsRecv)

\* C27: on one connection the k-th send_command carries message id k, and
\* the call returns the result of, or raises the error of, the first
\* received response whose id equals that id, skipping every response that
\* carries a different id.
C27_IdsAndMatchingResponse ==
    cmd = "none" =>
        /\ \A i \in IdsTaken : log[i].id = Cardinality({j \in IdsTaken : j <= i})
        /\ \A s \in SendsAt :
             LET received == ReceivedBy(s)
                 matching == {i \in DOMAIN received : received[i].id = log[s].id}
                 outcome == log[CallEnd(s)]
             IN  IF matching = {}
                 THEN outcome = Event("error", "timed out", log[s].id)
                 ELSE LET first == CHOOSE i \in matching : \A j \in matching : i <= j
                      IN  /\ first = Len(received)
                          /\ outcome = Event(IF received[first].ev = "recv_ok"
                                             THEN "result" ELSE "error",
                                             received[first].type, log[s].id)

\* C27 witness: the third command on the connection skipped a response to
\* an earlier command and raised the error of a failed response to itself,
\* after the second had returned a result.
C27_Witness ==
    /\ cmd = "none" /\ Cardinality(SendsAt) = 3
    /\ \E s \in SendsAt :
         /\ log[s].id = 3
         /\ Len(ReceivedBy(s)) = 2 /\ ReceivedBy(s)[1].id = 2
         /\ log[Len(log)].ev = "error" /\ log[Len(log)].type = "r2"
    /\ \E i \in DOMAIN log : log[i].ev = "result" /\ log[i].id = 2

-----------------------------------------------------------------------------
(* Claims about the preference of source assignments *)

\* The entity-ids assigned to a source role with the given preference.
SourceIds(preferred) ==
    {assignments[i].entity_id :
        i \in {j \in DOMAIN assignments :
                 assignments[j].role \in SourceRoles /\ assignments[j].preferred = preferred}}

\* C28: no entity-id is emitted by build_energy_topology both as a
\* preferred and as a non-preferred assignment of the source roles
\* (grid_import, grid_export, solar, battery_charge, battery_discharge).
C28_PreferenceUnambiguous ==
    built => SourceIds(TRUE) \cap SourceIds(FALSE) = {}

-----------------------------------------------------------------------------
(* Claims about the entity-ids the energy sources reference *)

\* Each entity-id is referenced by at most one of the sources.
ReferencedOnce(sources) ==
    \A i, j \in DOMAIN sources :
        i # j => extract_source_entity_ids(sources[i]) \cap extract_source_entity_ids(sources[j]) = {}

\* C29: for every preferences document in which each entity-id is
\* referenced by at most one energy source, and every topology, each
\* entity-id is referenced by at most one energy source of
\* apply_topology_prefs(P, T).
C29_SourcesStayDisjoint ==
    (Called /\ ReferencedOnce(InSources)) => ReferencedOnce(OutSources)

-----------------------------------------------------------------------------
(* Claims about the frame of remove_stale_references *)

\* The source references no stale id.
SourceAlive(s) == extract_source_entity_ids(s) \cap staleIds = {}

\* The device_consumption entry references no stale id.
EntryAlive(d) == Get(d, "stat_consumption") \notin staleIds

\* C30: remove_stale_references(P, S) returns every energy source and
\* device_consumption entry of P that references no id in S unchanged (same
\* keys, same values, same relative order); in particular, for a document P
\* that has both sections, remove_stale_references(P, {}) equals P.
C30_AliveReturnedUnchanged ==
    (mode = "stale" /\ Called) =>
        /\ IsSubsequence(SelectSeq(InSources, SourceAlive), OutSources)
        /\ IsSubsequence(SelectSeq(InEntries, EntryAlive), OutEntries)
        /\ (staleIds = {} /\ {"energy_sources", "device_consumption"} \subseteq DOMAIN InputDoc)
               => OutputDoc = InputDoc


=============================================================================
